---- MODULE Spec2Model ----
(***************************************************************************)
(* foodie-finder: the remote-call resilience layer.                        *)
(*   APIPerformanceOptimizer (performance optimizer module): the circuit   *)
(*   breaker registry, optimizeAPICall and executeWithRetry.               *)
(*   CacheManager (utils/util.js): the TTL cache on the platform storage.  *)
(*   PerformanceMonitor (utils/util.js): the start/end instrumentation.    *)
(*   DebugMonitor (utils/debug-monitor.js): the periodic health check.     *)
(*   The recipe page's retry counter and retryAsync (error handling).      *)
(* Time is in milliseconds, as Date.now() gives it.                        *)
(***************************************************************************)
EXTENDS Integers, Sequences, FiniteSets, TLC

VARIABLES
    now,             \* Date.now()
    ticks,           \* how often the clock has advanced
    circuitBreaker,  \* APIPerformanceOptimizer.circuitBreaker: Map apiName -> breaker
    storage,         \* the platform storage, cache keys only: key -> cacheData
    pendingUpdates,  \* the setTimeout(..., 0) write-backs CacheManager.get has scheduled
    calls,           \* the optimizeAPICall invocations, one per caller slot
    abandonedOps,    \* apiFunction() promises that lost their race and are still pending
    staleTimers,     \* timeout timers whose race the operation has already settled
    history,         \* per apiName: what the callers have observed (not program state)
    stats,           \* CacheManager.stats
    last,            \* the calls of CacheManager's methods so far and what the latest
                     \* one returned, as their callers have observed (not program state)
    monitor,         \* PerformanceMonitor: records and stats
    measured,        \* the calls of PerformanceMonitor's methods so far, as their callers
                     \* have observed (not program state)
    debugMonitor,    \* DebugMonitor: monitoringEnabled and its timers
    checked,         \* the health checks so far and what the latest one found and did
                     \* (not program state)
    page,            \* the recipe page's data: retryCount, maxRetries and what drives them
    retrying,        \* one retryAsync call: its closure, its timer and its promise
    compressing,     \* one compressImages call: its closure and its promise
    diagnosed        \* the diagnostic runs so far and what the latest one reported
                     \* (not program state)

vars == <<now, ticks, circuitBreaker, storage, pendingUpdates, calls, abandonedOps, staleTimers,
          history, stats, last, monitor, measured, debugMonitor, checked, page, retrying,
          compressing, diagnosed>>

-----------------------------------------------------------------------------
(* Bounds of the model *)

\* the clock advances at most MaxTicks times (MaxRetryTicks in the retry study)
MaxTicks == 3
MaxRetryTicks == 4
MaxConcurrentTicks == 2
\* race losers (abandoned operations, stale timers) that may be pending at once,
\* and write-backs that may be pending at once
MaxPending == 1
\* failureCount is not allowed to grow past this
MaxFailures == 7
\* accessCount is not allowed to grow past this
MaxAccess == 1
\* a cache lookup is made only while CacheManager.stats counts fewer events than this
MaxStats == 3
\* the callers of CacheManager call its methods at most this often
MaxCalls == 4
\* the clock advances at most this often in the store study
MaxStoreTicks == 3
\* the callers of CacheManager call its methods at most this often in the eviction study
MaxEvictCalls == 1
\* the callers of CacheManager call its methods at most this often in the rewrite study
MaxRewriteCalls == 5
\* the callers of PerformanceMonitor call its methods at most this often, and the
\* clock advances at most this often in the monitor study
MaxMonitorCalls == 6
MaxMonitorTicks == 3
\* the same in the list study
MaxListCalls == 4
MaxListTicks == 2
\* the health check runs at most this often, and the clock advances at most this
\* often in the health study
MaxHealthChecks == 3
MaxHealthTicks == 3
MaxPageLoads == 5
MaxRetriesArg == 4
\* compressImages is given at most this many image paths
MaxImages == 4
\* runFullDiagnostic is called at most this often
MaxDiagnoses == 2
\* optimizeAPICall is called at most this often, and the clock advances at most this
\* often, in the study of its performance records
MaxMeasuredCalls == 3
MaxMeasuredTicks == 2
\* the clock advances at most this often in the termination study: enough for five
\* timeouts and four backoff waits in steps of one second
MaxTerminateTicks == 37

(* Program constants *)

DefaultTimeout == 5000
BaseDelay == 1000
CapDelay == 5000
Threshold == 5
CooldownTime == 60000
ApiCacheTime == 300000
DefaultExpireTime == 86400000
DefaultLimitSize == 10240

(* Inputs *)

ApiNames == {"X"}
\* the caller slots; a specification lets one or both of them call
CallIds == {"c1", "c2"}
OneCaller == {"c1"}
\* what apiFunction can resolve with: "" is a falsy result (the cache study adds "r2")
Results == {"r1", ""}
\* what apiFunction can reject with
OpErrors == {"E1"}
\* an error of the operation that its caller has marked as not to be retried
NonRetryableErrors == {"EV"}
TimeoutError == "API timeout"
\* retryCount of a call in the breaker and cache studies
RetryCounts == {0, 1}
\* by how much the clock advances around the cooldown
BreakerSteps == {1000, 60000}

Null == "null"
Min(a, b) == IF a < b THEN a ELSE b

RECURSIVE Pow2(_)
Pow2(n) == IF n = 0 THEN 1 ELSE 2 * Pow2(n - 1)

\* JavaScript truthiness of a result value
Truthy(v) == v \notin {Null, ""}

CircuitOpenError(apiName) == "circuit open " \o apiName

-----------------------------------------------------------------------------
(* Maps *)

Has(m, k) == k \in DOMAIN m
Put(m, k, v) == [x \in DOMAIN m \cup {k} |-> IF x = k THEN v ELSE m[x]]
Delete(m, k) == [x \in DOMAIN m \ {k} |-> m[x]]
EmptyMap == [x \in {} |-> 0]

-----------------------------------------------------------------------------
(* CacheManager *)

PREFIX == "foodiefinder_cache_"
ApiKey(apiName) == "api_" \o apiName
\* the keys the callers of CacheManager use themselves
StoreKeys == {"a", "b"}
EvictKeys == {"k1", "k2", "k3", "k4", "k5", "k6", "k7"}
CacheKeys == {PREFIX \o ApiKey(n) : n \in ApiNames}
               \cup {PREFIX \o k : k \in StoreKeys \cup EvictKeys}
\* the order in which wx.getStorageInfoSync lists the keys
KeyOrder == <<PREFIX \o "api_X", PREFIX \o "a", PREFIX \o "b", PREFIX \o "k1",
              PREFIX \o "k2", PREFIX \o "k3", PREFIX \o "k4", PREFIX \o "k5",
              PREFIX \o "k6", PREFIX \o "k7">>

\* the weights with low and high exchanged
priorityWeight_Reversed(p) ==
    CASE p = "low" -> 3 [] p = "normal" -> 2 [] p = "high" -> 1 [] OTHER -> 2

priorityWeight(p) == CASE p = "low" -> 1 [] p = "normal" -> 2 [] p = "high" -> 3 [] OTHER -> 2

\* cacheItems.sort(...): a sorts before b
SortsBefore(st, a, b) ==
    LET pa == priorityWeight(st[a].priority)
        pb == priorityWeight(st[b].priority)
        ia == CHOOSE i \in 1..Len(KeyOrder) : KeyOrder[i] = a
        ib == CHOOSE i \in 1..Len(KeyOrder) : KeyOrder[i] = b
    IN  \/ pa < pb
        \/ pa = pb /\ st[a].accessCount < st[b].accessCount
        \/ pa = pb /\ st[a].accessCount = st[b].accessCount /\ ia < ib

cleanupByPriority(st) ==
    LET cacheKeys == DOMAIN st
        deleteCount == (Cardinality(cacheKeys) * 3) \div 10
        rank(k) == Cardinality({j \in cacheKeys : SortsBefore(st, j, k)})
    IN  [k \in {x \in cacheKeys : rank(x) >= deleteCount} |-> st[k]]

\* CacheManager.set writing under the bare key
CacheSet_NoPrefix(st, key, data, expireTime, t, spaceOk) ==
    LET cacheData == [data |-> data, timestamp |-> t, expireTime |-> expireTime,
                      compressed |-> FALSE, priority |-> "normal",
                      accessCount |-> 0, lastAccess |-> t]
        cleaned == IF spaceOk THEN st ELSE cleanupByPriority(st)
    IN  Put(cleaned, key, cacheData)

\* CacheManager.set ignoring the expireTime it is given
CacheSet_DefaultExpire(st, key, data, expireTime, t, spaceOk) ==
    LET cacheData == [data |-> data, timestamp |-> t, expireTime |-> DefaultExpireTime,
                      compressed |-> FALSE, priority |-> "normal",
                      accessCount |-> 0, lastAccess |-> t]
        cleaned == IF spaceOk THEN st ELSE cleanupByPriority(st)
    IN  Put(cleaned, PREFIX \o key, cacheData)

\* CacheManager.set(key, data, expireTime, {priority}); spaceOk is what
\* checkStorageSpace() answers
CacheSetWith(st, key, data, expireTime, priority, t, spaceOk) ==
    LET cacheData == [data |-> data, timestamp |-> t, expireTime |-> expireTime,
                      compressed |-> FALSE, priority |-> priority,
                      accessCount |-> 0, lastAccess |-> t]
        cleaned == IF spaceOk THEN st ELSE cleanupByPriority(st)
    IN  Put(cleaned, PREFIX \o key, cacheData)

\* CacheManager.set(key, data, expireTime): the priority is 'normal'
CacheSet(st, key, data, expireTime, t, spaceOk) ==
    CacheSetWith(st, key, data, expireTime, "normal", t, spaceOk)

CacheRemove(st, key) == Delete(st, PREFIX \o key)

\* the expiry test with >= for >
CacheExpired_AtTtl(e, t) == t - e.timestamp >= e.expireTime

CacheExpired(e, t) == t - e.timestamp > e.expireTime

CacheHit(st, key, t) == Has(st, PREFIX \o key) /\ ~CacheExpired(st[PREFIX \o key], t)

\* CacheManager.get(key): the value returned
CacheGetValue(st, key, t) ==
    IF CacheHit(st, key, t) THEN st[PREFIX \o key].data ELSE Null

\* CacheManager.get leaving an expired entry in the storage
CacheGetStorage_KeepsExpired(st, key, t) == st

\* CacheManager.get(key): the storage afterwards (an expired entry is removed)
CacheGetStorage(st, key, t) ==
    IF Has(st, PREFIX \o key) /\ CacheExpired(st[PREFIX \o key], t)
    THEN CacheRemove(st, key) ELSE st

\* CacheManager.get(key): the write-backs it leaves scheduled
CacheGetPending(pu, st, key, t) ==
    IF CacheHit(st, key, t)
    THEN pu \cup {[key |-> PREFIX \o key,
                   cacheData |-> [st[PREFIX \o key] EXCEPT
                                    !.accessCount = @ + 1, !.lastAccess = t]]}
    ELSE pu

\* no method of CacheManager has been called by a caller of its own. n counts the
\* calls, result is what the latest returned, fails the store call that threw in
\* it, cleanup whether it ran cleanupByPriority, invalid the keys removed or
\* cleared and not set since, prev the method called before the latest, hitRate
\* what the latest getStats() reported, in hundredths
NoCall == [n |-> 0, op |-> "none", key |-> "", result |-> "none", fails |-> "none",
           cleanup |-> FALSE, currentSize |-> 0, limitSize |-> 0, invalid |-> {},
           prev |-> "none", hitRate |-> 0]

\* CacheManager.stats
NoStats == [hits |-> 0, misses |-> 0, sets |-> 0, removes |-> 0]
StatTotal(s) == s.hits + s.misses + s.sets + s.removes

\* CacheManager.get(key): the statistics afterwards
CacheGetStats(s, st, key, t) ==
    IF CacheHit(st, key, t) THEN [s EXCEPT !.hits = @ + 1]
    ELSE IF Has(st, PREFIX \o key)
         THEN [s EXCEPT !.removes = @ + 1, !.misses = @ + 1]
         ELSE [s EXCEPT !.misses = @ + 1]

\* cleanupByPriority: the number of entries it deletes
deleteCount(st) == (Cardinality(DOMAIN st) * 3) \div 10

\* CacheManager.set(key, data, expireTime): the statistics afterwards
CacheSetStats(s, st, spaceOk) ==
    [s EXCEPT !.sets = @ + 1,
              !.removes = @ + (IF spaceOk THEN 0 ELSE deleteCount(st))]

-----------------------------------------------------------------------------
(* APIPerformanceOptimizer: the circuit breaker *)

NewBreaker == [failureCount |-> 0, lastFailTime |-> 0, state |-> "closed",
               threshold |-> Threshold, cooldownTime |-> CooldownTime]

\* isCircuitBreakerOpen: the open breaker whose cooldown is over
CooldownOver(cb, apiName, t) ==
    /\ Has(cb, apiName)
    /\ cb[apiName].state = "open"
    /\ t - cb[apiName].lastFailTime > cb[apiName].cooldownTime

\* isCircuitBreakerOpen without its last return: never reports an open breaker
isCircuitBreakerOpen_NoReturn(cb, apiName, t) ==
    IF ~Has(cb, apiName) THEN FALSE
    ELSE IF CooldownOver(cb, apiName, t) THEN FALSE
    ELSE FALSE

\* isCircuitBreakerOpen(apiName): the value returned
isCircuitBreakerOpen(cb, apiName, t) ==
    IF ~Has(cb, apiName) THEN FALSE
    ELSE IF CooldownOver(cb, apiName, t) THEN FALSE
    ELSE cb[apiName].state = "open"

\* isCircuitBreakerOpen closing the breaker once the cooldown is over
BreakerChecked_ToClosed(cb, apiName, t) ==
    IF CooldownOver(cb, apiName, t)
    THEN [cb EXCEPT ![apiName].state = "closed"]
    ELSE cb

\* isCircuitBreakerOpen(apiName): the registry afterwards
BreakerChecked(cb, apiName, t) ==
    IF CooldownOver(cb, apiName, t)
    THEN [cb EXCEPT ![apiName].state = "half-open"]
    ELSE cb

\* updateCircuitBreaker not stamping the failure time
updateCircuitBreaker_NoStamp(cb, apiName, t) ==
    LET cb0 == IF Has(cb, apiName) THEN cb ELSE Put(cb, apiName, NewBreaker)
        b == cb0[apiName]
        count == b.failureCount + 1
    IN  [cb0 EXCEPT ![apiName] =
            [b EXCEPT !.failureCount = count,
                      !.state = IF count >= b.threshold THEN "open" ELSE b.state]]

\* updateCircuitBreaker tripping one failure late (> for >=)
updateCircuitBreaker_TripLate(cb, apiName, t) ==
    LET cb0 == IF Has(cb, apiName) THEN cb ELSE Put(cb, apiName, NewBreaker)
        b == cb0[apiName]
        count == b.failureCount + 1
    IN  [cb0 EXCEPT ![apiName] =
            [b EXCEPT !.failureCount = count,
                      !.lastFailTime = t,
                      !.state = IF count > b.threshold THEN "open" ELSE b.state]]

updateCircuitBreaker(cb, apiName, t) ==
    LET cb0 == IF Has(cb, apiName) THEN cb ELSE Put(cb, apiName, NewBreaker)
        b == cb0[apiName]
        count == b.failureCount + 1
    IN  [cb0 EXCEPT ![apiName] =
            [b EXCEPT !.failureCount = count,
                      !.lastFailTime = t,
                      !.state = IF count >= b.threshold THEN "open" ELSE b.state]]

\* resetCircuitBreaker clearing the count and leaving the state
resetCircuitBreaker_KeepState(cb, apiName) ==
    IF Has(cb, apiName)
    THEN [cb EXCEPT ![apiName].failureCount = 0]
    ELSE cb

resetCircuitBreaker(cb, apiName) ==
    IF Has(cb, apiName)
    THEN [cb EXCEPT ![apiName].failureCount = 0, ![apiName].state = "closed"]
    ELSE cb

\* getAPIPerformanceReport(apiName).circuitBreakerStatus
circuitBreakerStatus(cb, apiName) ==
    IF Has(cb, apiName) THEN cb[apiName].state ELSE "closed"

FailureCount(cb, apiName) ==
    IF Has(cb, apiName) THEN cb[apiName].failureCount ELSE 0

-----------------------------------------------------------------------------
(* APIPerformanceOptimizer: optimizeAPICall and executeWithRetry *)

\* the options object of a call; cacheTtlMs is not an option optimizeAPICall reads
OptionsOf(retryCounts, breakerFlags, cacheTtls) ==
    [timeout : {DefaultTimeout}, retryCount : retryCounts,
     cacheEnabled : BOOLEAN, circuitBreakerEnabled : breakerFlags,
     cacheTtlMs : cacheTtls]

IdleCall == [pc |-> "idle", apiName |-> "", options |-> <<>>,
             i |-> 0, timer |-> 0, opCalls |-> 0, lastError |-> Null,
             delays |-> <<>>, failedAt |-> 0,
             outcome |-> "none", value |-> Null, source |-> "none",
             probe |-> FALSE]

\* the backoff delay without its cap
RetryDelay_NoCap(i) == BaseDelay * Pow2(i)

\* the backoff delay after the failed attempt i
RetryDelay(i) == Min(BaseDelay * Pow2(i), CapDelay)

\* a loop of executeWithRetry that always has a turn left
MoreAttempts_Always(i, retryCount) == TRUE

\* the loop of executeWithRetry running one turn too many
MoreAttempts_OneMore(i, retryCount) == i + 1 <= retryCount + 1

\* the loop of executeWithRetry has a turn left after attempt i
MoreAttempts(i, retryCount) == i + 1 <= retryCount

NoHistory == [consecutiveFailures |-> 0, lastFailureAt |-> 0]

Settled(k, outcome, value, source) ==
    [k EXCEPT !.pc = "done", !.outcome = outcome, !.value = value, !.source = source]

\* the catch block of optimizeAPICall
CatchUpdate(cb, k, t) ==
    IF k.options.circuitBreakerEnabled THEN updateCircuitBreaker(cb, k.apiName, t) ELSE cb

\* A settled call's caller continues in the same microtask checkpoint, before any
\* timer or network task runs
NoneSettled == \A c \in CallIds : calls[c].pc # "done"

\* a timer that is due (an attempt's timeout, a backoff wait, a 0 ms write-back)
TimerDue ==
    \/ pendingUpdates # {}
    \/ \E c \in CallIds : calls[c].pc \in {"attempt", "backoff"} /\ now >= calls[c].timer

\* a call that joins the pending attempt of another call for the same name
\* instead of calling apiFunction() itself
FirstAttempt_Coalesced(cs, k, t) ==
    IF \E d \in DOMAIN cs : cs[d].pc = "attempt" /\ cs[d].apiName = k.apiName
    THEN LET d == CHOOSE d \in DOMAIN cs : cs[d].pc = "attempt" /\ cs[d].apiName = k.apiName
         IN  [k EXCEPT !.pc = "attempt", !.i = 0, !.opCalls = 0, !.timer = cs[d].timer]
    ELSE [k EXCEPT !.pc = "attempt", !.i = 0, !.opCalls = 1, !.timer = t + k.options.timeout]

\* executeWithRetry is entered: the first turn of its loop calls apiFunction() and
\* starts the timer, whatever the other calls cs are doing
FirstAttempt(cs, k, t) ==
    [k EXCEPT !.pc = "attempt", !.i = 0, !.opCalls = 1, !.timer = t + k.options.timeout]

\* optimizeAPICall up to its first await
OptimizeAPICall(c, apiName, options) ==
    /\ NoneSettled
    /\ calls[c].pc = "idle"
    /\ FailureCount(circuitBreaker, apiName) < MaxFailures
    /\ LET key == ApiKey(apiName)
           k == [IdleCall EXCEPT !.apiName = apiName, !.options = options,
                                 \* the breaker check of this call ends the cooldown
                                 !.probe = options.circuitBreakerEnabled
                                             /\ CooldownOver(circuitBreaker, apiName, now)]
           open == options.circuitBreakerEnabled
                     /\ isCircuitBreakerOpen(circuitBreaker, apiName, now)
           cb1 == IF options.circuitBreakerEnabled
                  THEN BreakerChecked(circuitBreaker, apiName, now)
                  ELSE circuitBreaker
           cachedResult == CacheGetValue(storage, key, now)
       IN  IF open
           THEN /\ circuitBreaker' = CatchUpdate(cb1, k, now)
                /\ calls' = [calls EXCEPT ![c] =
                                Settled(k, "threw", CircuitOpenError(apiName), "breaker")]
                /\ UNCHANGED <<storage, pendingUpdates, stats>>
           ELSE /\ circuitBreaker' = cb1
                /\ IF options.cacheEnabled
                   THEN /\ CacheHit(storage, key, now) =>
                               /\ storage[PREFIX \o key].accessCount < MaxAccess
                               /\ Cardinality(pendingUpdates) < MaxPending
                        /\ StatTotal(stats) < MaxStats
                        /\ storage' = CacheGetStorage(storage, key, now)
                        /\ pendingUpdates' = CacheGetPending(pendingUpdates, storage, key, now)
                        /\ stats' = CacheGetStats(stats, storage, key, now)
                   ELSE UNCHANGED <<storage, pendingUpdates, stats>>
                /\ IF options.cacheEnabled /\ Truthy(cachedResult)
                   THEN calls' = [calls EXCEPT ![c] =
                                    Settled(k, "returned", cachedResult, "cache")]
                   ELSE calls' = [calls EXCEPT ![c] = FirstAttempt(calls, k, now)]
    /\ UNCHANGED <<last, now, ticks, abandonedOps, staleTimers, history>>

\* the catch block of executeWithRetry, and past the loop the catch block of
\* optimizeAPICall
AttemptFailedIf(c, error, retry) ==
    LET k == calls[c]
        apiName == k.apiName
    IN  IF retry
        THEN /\ calls' = [calls EXCEPT ![c] =
                            [k EXCEPT !.pc = "backoff", !.lastError = error,
                                      !.failedAt = now,
                                      !.timer = now + RetryDelay(k.i),
                                      !.delays = Append(@, RetryDelay(k.i))]]
             /\ UNCHANGED <<circuitBreaker, history>>
        ELSE /\ calls' = [calls EXCEPT ![c] =
                            Settled([k EXCEPT !.lastError = error, !.failedAt = now],
                                    "threw", error, "operation")]
             /\ circuitBreaker' = CatchUpdate(circuitBreaker, k, now)
             /\ history' = IF k.options.circuitBreakerEnabled
                           THEN [history EXCEPT ![apiName] =
                                   [consecutiveFailures |-> @.consecutiveFailures + 1,
                                    lastFailureAt |-> now]]
                           ELSE history

\* executeWithRetry giving up at once on an error marked as not to be retried
AttemptFailed_NonRetryable(c, error) ==
    AttemptFailedIf(c, error, /\ MoreAttempts(calls[c].i, calls[c].options.retryCount)
                              /\ error \notin NonRetryableErrors)

AttemptFailed(c, error) ==
    AttemptFailedIf(c, error, MoreAttempts(calls[c].i, calls[c].options.retryCount))

\* apiFunction() rejects before the timer fires
OperationRejects(c, error) ==
    /\ NoneSettled
    /\ calls[c].pc = "attempt"
    /\ abandonedOps + staleTimers < MaxPending
    /\ staleTimers' = staleTimers + 1
    /\ AttemptFailed(c, error)
    /\ UNCHANGED <<stats, last, now, ticks, storage, pendingUpdates, abandonedOps>>

\* the timer of the attempt fires before apiFunction() settles
TimeoutFires(c) ==
    /\ NoneSettled
    /\ calls[c].pc = "attempt"
    /\ now >= calls[c].timer
    /\ abandonedOps + staleTimers < MaxPending
    /\ abandonedOps' = abandonedOps + 1
    /\ AttemptFailed(c, TimeoutError)
    /\ UNCHANGED <<stats, last, now, ticks, storage, pendingUpdates, staleTimers>>

\* the backoff wait is over: the next turn of the loop calls apiFunction() again
RetryAttempt(c) ==
    /\ NoneSettled
    /\ calls[c].pc = "backoff"
    /\ now >= calls[c].timer
    /\ calls' = [calls EXCEPT ![c] =
                    [@ EXCEPT !.pc = "attempt", !.i = @ + 1, !.opCalls = @ + 1,
                              !.timer = now + calls[c].options.timeout]]
    /\ UNCHANGED <<stats, last, now, ticks, circuitBreaker, storage, pendingUpdates, abandonedOps,
                   staleTimers, history>>

\* apiFunction() resolves before the timer fires: optimizeAPICall after the await
OperationResolves(c, result, spaceOk) ==
    /\ NoneSettled
    /\ calls[c].pc = "attempt"
    /\ abandonedOps + staleTimers < MaxPending
    /\ staleTimers' = staleTimers + 1
    /\ LET k == calls[c] IN
       /\ storage' = IF k.options.cacheEnabled /\ Truthy(result)
                     THEN CacheSet(storage, ApiKey(k.apiName), result, ApiCacheTime,
                                   now, spaceOk)
                     ELSE storage
       /\ stats' = IF k.options.cacheEnabled /\ Truthy(result)
                   THEN CacheSetStats(stats, storage, spaceOk)
                   ELSE stats
       /\ circuitBreaker' = resetCircuitBreaker(circuitBreaker, k.apiName)
       /\ calls' = [calls EXCEPT ![c] = Settled(k, "returned", result, "operation")]
       /\ history' = [history EXCEPT ![k.apiName] = NoHistory]
    /\ UNCHANGED <<last, now, ticks, pendingUpdates, abandonedOps>>

\* an abandoned apiFunction() promise whose late result is still taken as a success
AbandonedSettles_Taken ==
    /\ NoneSettled
    /\ abandonedOps > 0
    /\ abandonedOps' = abandonedOps - 1
    /\ circuitBreaker' = [n \in DOMAIN circuitBreaker |->
                            resetCircuitBreaker(circuitBreaker, n)[n]]
    /\ UNCHANGED <<stats, last, now, ticks, storage, pendingUpdates, calls, staleTimers, history>>

\* an abandoned apiFunction() promise settles: Promise.race has settled already
AbandonedSettles ==
    /\ NoneSettled
    /\ abandonedOps > 0
    /\ abandonedOps' = abandonedOps - 1
    /\ UNCHANGED <<stats, last, now, ticks, circuitBreaker, storage, pendingUpdates, calls, staleTimers,
                   history>>

\* the timer of an attempt the operation has settled fires (the model lets it fire
\* at any time, a superset of the times at which it can)
StaleTimerFires ==
    /\ NoneSettled
    /\ staleTimers > 0
    /\ staleTimers' = staleTimers - 1
    /\ UNCHANGED <<stats, last, now, ticks, circuitBreaker, storage, pendingUpdates, calls, abandonedOps,
                   history>>

\* the setTimeout(..., 0) callback of CacheManager.get
DeferredUpdate(u) ==
    /\ NoneSettled
    /\ u \in pendingUpdates
    /\ storage' = Put(storage, u.key, u.cacheData)
    /\ pendingUpdates' = pendingUpdates \ {u}
    /\ UNCHANGED <<stats, last, now, ticks, circuitBreaker, calls, abandonedOps, staleTimers, history>>

-----------------------------------------------------------------------------
(* CacheManager called by callers of its own. fails names the call of the    *)
(* platform storage that throws during the method, "none" when none does.    *)

\* checkStorageSpace(): info is what wx.getStorageInfoSync returns
checkStorageSpace(info) ==
    LET limitSize == IF info.limitSize = 0 THEN DefaultLimitSize ELSE info.limitSize
        currentSize == info.currentSize
    IN  currentSize * 10 < limitSize * 8

\* a method that lets the exception of the storage escape
ReturnedOnFailure_Uncaught(op) == "threw"

\* what a method returns from its catch block
ReturnedOnFailure(op) == IF op = "get" THEN Null ELSE "false"

\* the record of a call: the n-th call, of method op
Called(op, key, result, fails) ==
    [last EXCEPT !.n = @ + 1, !.op = op, !.key = key, !.result = result,
                 !.fails = fails, !.cleanup = FALSE, !.prev = last.op]

CacheManagerSet(key, data, expireTime, priority, info, fails, maxCalls) ==
    /\ NoneSettled
    /\ last.n < maxCalls
    /\ LET spaceOk == IF fails = "info" THEN TRUE ELSE checkStorageSpace(info)
           cleaned == IF spaceOk THEN storage ELSE cleanupByPriority(storage)
           counted == IF spaceOk THEN stats
                      ELSE [stats EXCEPT !.removes = @ + deleteCount(storage)]
           call == [Called("set", key, "true", fails) EXCEPT
                       !.cleanup = ~spaceOk,
                       !.currentSize = info.currentSize,
                       !.limitSize = info.limitSize]
       IN  IF fails = "write"
           THEN /\ storage' = cleaned
                /\ stats' = counted
                /\ last' = [call EXCEPT !.result = ReturnedOnFailure("set")]
           ELSE /\ storage' = CacheSetWith(storage, key, data, expireTime, priority,
                                           now, spaceOk)
                /\ stats' = CacheSetStats(stats, storage, spaceOk)
                /\ last' = [call EXCEPT !.invalid = @ \ {key}]
    /\ UNCHANGED <<now, ticks, circuitBreaker, pendingUpdates, calls, abandonedOps,
                   staleTimers, history>>

CacheManagerGet(key, fails, maxCalls) ==
    /\ NoneSettled
    /\ last.n < maxCalls
    /\ IF fails = "read"
       THEN /\ stats' = [stats EXCEPT !.misses = @ + 1]
            /\ last' = Called("get", key, ReturnedOnFailure("get"), fails)
            /\ UNCHANGED <<storage, pendingUpdates>>
       ELSE IF fails = "remove" /\ Has(storage, PREFIX \o key)
                                /\ CacheExpired(storage[PREFIX \o key], now)
       THEN \* this.remove(key) returns false from its catch block
            /\ stats' = [stats EXCEPT !.misses = @ + 1]
            /\ last' = Called("get", key, Null, fails)
            /\ UNCHANGED <<storage, pendingUpdates>>
       ELSE /\ storage' = CacheGetStorage(storage, key, now)
            /\ pendingUpdates' = CacheGetPending(pendingUpdates, storage, key, now)
            /\ stats' = CacheGetStats(stats, storage, key, now)
            /\ last' = Called("get", key, CacheGetValue(storage, key, now), fails)
    /\ UNCHANGED <<now, ticks, circuitBreaker, calls, abandonedOps, staleTimers, history>>

CacheManagerRemove(key, fails, maxCalls) ==
    /\ NoneSettled
    /\ last.n < maxCalls
    /\ IF fails = "remove"
       THEN /\ last' = Called("remove", key, ReturnedOnFailure("remove"), fails)
            /\ UNCHANGED <<storage, stats>>
       ELSE /\ storage' = CacheRemove(storage, key)
            /\ stats' = [stats EXCEPT !.removes = @ + 1]
            /\ last' = [Called("remove", key, "true", fails) EXCEPT
                            !.invalid = @ \cup {key}]
    /\ UNCHANGED <<now, ticks, circuitBreaker, pendingUpdates, calls, abandonedOps,
                   staleTimers, history>>

\* clear() filtering the keys by a prefix none of them has: it removes nothing
CacheClear_NoKeyMatches(st) == st

\* clear(): the storage afterwards. Every key of the storage has the prefix.
CacheClear(st) == EmptyMap

\* A removal that throws is the first one, with nothing removed yet.
CacheManagerClear(fails, maxCalls) ==
    /\ NoneSettled
    /\ last.n < maxCalls
    /\ IF fails = "info" \/ (fails = "remove" /\ DOMAIN storage # {})
       THEN /\ last' = Called("clear", "", ReturnedOnFailure("clear"), fails)
            /\ UNCHANGED <<storage, stats>>
       ELSE /\ storage' = CacheClear(storage)
            /\ stats' = [stats EXCEPT !.removes = @ + Cardinality(DOMAIN storage)]
            /\ last' = [Called("clear", "", "true", fails) EXCEPT
                            !.invalid = StoreKeys \cup EvictKeys]
    /\ UNCHANGED <<now, ticks, circuitBreaker, pendingUpdates, calls, abandonedOps,
                   staleTimers, history>>

\* getStats() reporting the share of the misses
getStats_MissRate(s) ==
    LET total == s.hits + s.misses
    IN  [hits |-> s.hits, misses |-> s.misses, sets |-> s.sets, removes |-> s.removes,
         hitRate |-> IF total = 0 THEN 0 ELSE (200 * s.misses + total) \div (2 * total)]

\* getStats(): hitRate is Math.round(hits / (hits + misses) * 100) / 100, 0 for the
\* NaN of 0 / 0; it is kept in hundredths here, Math.round(x) being floor(x + 1/2)
getStats(s) ==
    LET total == s.hits + s.misses
    IN  [hits |-> s.hits, misses |-> s.misses, sets |-> s.sets, removes |-> s.removes,
         hitRate |-> IF total = 0 THEN 0 ELSE (200 * s.hits + total) \div (2 * total)]

CacheManagerGetStats(maxCalls) ==
    /\ NoneSettled
    /\ last.n < maxCalls
    /\ last' = [Called("getStats", "", "none", "none") EXCEPT
                    !.hitRate = getStats(stats).hitRate]
    /\ UNCHANGED <<now, ticks, circuitBreaker, storage, pendingUpdates, calls, abandonedOps,
                   staleTimers, history, stats>>

\* cleanupByPriority() called by itself (the debug monitor does). It returns nothing.
CacheManagerCleanup(fails, maxCalls) ==
    /\ NoneSettled
    /\ last.n < maxCalls
    /\ IF fails = "info"
       THEN /\ last' = Called("cleanup", "", "none", fails)
            /\ UNCHANGED <<storage, stats>>
       ELSE /\ storage' = cleanupByPriority(storage)
            /\ stats' = [stats EXCEPT !.removes = @ + deleteCount(storage)]
            /\ last' = [Called("cleanup", "", "none", fails) EXCEPT !.cleanup = TRUE]
    /\ UNCHANGED <<now, ticks, circuitBreaker, pendingUpdates, calls, abandonedOps,
                   staleTimers, history>>

-----------------------------------------------------------------------------
(* PerformanceMonitor. averageTime is a quotient of integers, kept exactly   *)
(* as [num, den] in lowest terms; -1 stands for the null of a record that    *)
(* has not ended.                                                            *)

RECURSIVE GCD(_, _)
GCD(a, b) == IF b = 0 THEN a ELSE GCD(b, a % b)
Quotient(p, q) == [num |-> p \div GCD(p, q), den |-> q \div GCD(p, q)]

\* PerformanceMonitor: records and stats as the module creates them, and by clear()
NewMonitor ==
    [records |-> EmptyMap,
     stats |-> [totalOperations |-> 0, averageTime |-> Quotient(0, 1),
                slowOperations |-> <<>>, fastOperations |-> <<>>]]

\* array.slice(0, n): the oldest n elements
SliceLast_Oldest(a, n) == IF Len(a) > n THEN SubSeq(a, 1, n) ELSE a

\* array.slice(-n)
SliceLast(a, n) == IF Len(a) > n THEN SubSeq(a, Len(a) - n + 1, Len(a)) ELSE a

\* updateStats(name, record)
updateStats(st, name, record) ==
    LET total == st.totalOperations + 1
        avg == st.averageTime
        totalTime == Quotient(avg.num * (total - 1) + record.duration * avg.den, avg.den)
        pushed == Append(st.fastOperations,
                         [name |-> name, duration |-> record.duration,
                          timestamp |-> record.startTime])
    IN  [st EXCEPT
           !.totalOperations = total,
           !.averageTime = Quotient(totalTime.num, totalTime.den * total),
           !.fastOperations = IF record.duration < 1000
                              THEN (IF Len(pushed) > 50 THEN SliceLast(pushed, 50) ELSE pushed)
                              ELSE @]

\* end(name), the record found: the stats afterwards
EndStats(st, name, record) ==
    LET updated == updateStats(st, name, record)
        pushed == Append(updated.slowOperations,
                         [name |-> name, duration |-> record.duration,
                          timestamp |-> record.startTime])
    IN  IF record.duration > 5000
        THEN [updated EXCEPT !.slowOperations =
                 IF Len(pushed) > 20 THEN SliceLast(pushed, 20) ELSE pushed]
        ELSE updated

\* no method of PerformanceMonitor has been called. n counts the calls, open holds
\* the names started and not ended since, log what the calls of end have recorded,
\* in their order, returned what the latest end returned
NoMeasurement == [n |-> 0, op |-> "none", name |-> "", open |-> {}, log |-> <<>>,
                  returned |-> 0]

\* start(name) at time t: the record of the name is replaced by a new one
MonitorStarted(mon, name, t) ==
    [mon EXCEPT !.records = Put(@, name, [startTime |-> t, endTime |-> -1, duration |-> -1])]

\* end(name) at time t: nothing without a record of the name; otherwise the record is
\* ended (and kept) and its duration goes into the stats
MonitorEnded(mon, name, t) ==
    IF ~Has(mon.records, name)
    THEN mon
    ELSE LET record == [mon.records[name] EXCEPT
                           !.endTime = t, !.duration = t - mon.records[name].startTime]
         IN  [records |-> Put(mon.records, name, record),
              stats |-> EndStats(mon.stats, name, record)]

MonitorStart(name, maxCalls) ==
    /\ measured.n < maxCalls
    /\ monitor' = MonitorStarted(monitor, name, now)
    /\ measured' = [measured EXCEPT !.n = @ + 1, !.op = "start", !.name = name,
                                    !.open = @ \cup {name}]
    /\ UNCHANGED <<now, ticks, circuitBreaker, storage, pendingUpdates, calls, abandonedOps,
                   staleTimers, history, stats, last>>

MonitorEnd(name, maxCalls) ==
    /\ measured.n < maxCalls
    /\ IF ~Has(monitor.records, name)
       THEN /\ measured' = [measured EXCEPT !.n = @ + 1, !.op = "end", !.name = name,
                                            !.returned = 0]
            /\ UNCHANGED monitor
       ELSE LET record == [monitor.records[name] EXCEPT
                              !.endTime = now,
                              !.duration = now - monitor.records[name].startTime]
                entry == [name |-> name, duration |-> record.duration,
                          timestamp |-> record.startTime]
            IN  /\ monitor' = MonitorEnded(monitor, name, now)
                /\ measured' = [measured EXCEPT !.n = @ + 1, !.op = "end", !.name = name,
                                                !.open = @ \ {name},
                                                !.log = Append(@, entry),
                                                !.returned = record.duration]
    /\ UNCHANGED <<now, ticks, circuitBreaker, storage, pendingUpdates, calls, abandonedOps,
                   staleTimers, history, stats, last>>

-----------------------------------------------------------------------------
(* DebugMonitor: the health check that setInterval runs every 30 s.          *)
(* errorLog, performanceLog and the wx storage information are not kept as   *)
(* state: a check is given what it finds in them (the number of performance  *)
(* issues and of errors logged in the last 5 minutes, the storage sizes).    *)

\* resumeAt is the time at which the pending timer sets monitoringEnabled again,
\* -1 when none is pending; lastCheck the time the interval last fired
NewDebugMonitor == [monitoringEnabled |-> TRUE, resumeAt |-> -1, lastCheck |-> 0]

NoCheck == [n |-> 0, ran |-> FALSE,
            status |-> [memory |-> "none", storage |-> "none", cache |-> "none",
                        performance |-> "none", errors |-> "none"],
            hitRate |-> 0, averageTime |-> Quotient(0, 1), recentIssues |-> 0,
            cleared |-> FALSE, emergency |-> FALSE]

\* checkStorageHealth
checkStorageHealth(info) ==
    IF info.currentSize * 100 > 90 * info.limitSize THEN "critical"
    ELSE IF info.currentSize * 100 > 80 * info.limitSize THEN "warning"
    ELSE "healthy"

\* checkCacheHealth with <= for <
checkCacheHealth_Inclusive(cacheStats) ==
    IF cacheStats.hitRate <= 30 THEN "critical"
    ELSE IF cacheStats.hitRate <= 50 THEN "warning"
    ELSE "healthy"

\* checkCacheHealth: cacheStats is what getStats() returns, hitRate in hundredths
checkCacheHealth(cacheStats) ==
    IF cacheStats.hitRate < 30 THEN "critical"
    ELSE IF cacheStats.hitRate < 50 THEN "warning"
    ELSE "healthy"

\* checkPerformanceHealth: performanceStats is PerformanceMonitor.stats
checkPerformanceHealth(performanceStats, recentIssues) ==
    LET avgTime == performanceStats.averageTime
    IN  IF avgTime.num > 5000 * avgTime.den \/ recentIssues > 10 THEN "critical"
        ELSE IF avgTime.num > 3000 * avgTime.den \/ recentIssues > 5 THEN "warning"
        ELSE "healthy"

\* checkErrorHealth, no error of the log being critical by itself
checkErrorHealth(recentErrors) ==
    IF recentErrors > 10 THEN "critical"
    ELSE IF recentErrors > 5 THEN "warning"
    ELSE "healthy"

\* emergencyCacheReset only cleaning up by priority
emergencyCacheReset_Cleanup(st) == cleanupByPriority(st)

\* emergencyCacheReset: the storage afterwards
emergencyCacheReset(st) == CacheClear(st)

\* optimizeStorage: the storage without its expired entries
optimizeStorage(st, t) == [k \in {x \in DOMAIN st : ~CacheExpired(st[x], t)} |-> st[k]]

\* the callback of setInterval: performHealthCheck when monitoring is enabled,
\* with evaluateHealthStatus and the handlers it calls
PerformHealthCheck(info, recentIssues, recentErrors, maxChecks) ==
    /\ checked.n < maxChecks
    /\ now - debugMonitor.lastCheck >= 30000
    /\ UNCHANGED <<now, ticks, circuitBreaker, pendingUpdates, calls, abandonedOps,
                   staleTimers, history, last>>
    /\ IF ~debugMonitor.monitoringEnabled
       THEN /\ debugMonitor' = [debugMonitor EXCEPT !.lastCheck = now]
            /\ checked' = [NoCheck EXCEPT !.n = checked.n + 1]
            /\ UNCHANGED <<storage, stats, monitor, measured>>
       ELSE LET cacheStats == getStats(stats)
                healthStatus ==
                    [memory |-> "healthy",
                     storage |-> checkStorageHealth(info),
                     cache |-> checkCacheHealth(cacheStats),
                     performance |-> checkPerformanceHealth(monitor.stats, recentIssues),
                     errors |-> checkErrorHealth(recentErrors)]
                critical(system) == healthStatus[system] = "critical"
                anyCritical == \E system \in DOMAIN healthStatus : critical(system)
                warning(system) == ~anyCritical /\ healthStatus[system] = "warning"
                \* handleCriticalHealth: storage, cache, performance in this order
                st1 == IF critical("storage") THEN CacheClear(storage) ELSE storage
                st2 == IF critical("cache") THEN emergencyCacheReset(st1) ELSE st1
                \* handleWarningHealth: storage, cache, performance in this order
                st3 == IF warning("storage") THEN optimizeStorage(st2, now) ELSE st2
                st4 == IF warning("cache") THEN cleanupByPriority(st3) ELSE st3
                removed == (IF critical("storage") \/ critical("cache")
                            THEN Cardinality(DOMAIN storage) ELSE 0)
                           + (IF warning("cache") THEN deleteCount(st3) ELSE 0)
                cleared == critical("performance") \/ warning("performance")
            IN  /\ storage' = st4
                /\ stats' = [stats EXCEPT !.removes = @ + removed]
                /\ monitor' = IF cleared THEN NewMonitor ELSE monitor
                /\ measured' = IF cleared
                               THEN [measured EXCEPT !.log = <<>>, !.open = {}]
                               ELSE measured
                /\ debugMonitor' =
                      IF critical("performance")
                      THEN [monitoringEnabled |-> FALSE, resumeAt |-> now + 60000,
                            lastCheck |-> now]
                      ELSE [debugMonitor EXCEPT !.lastCheck = now]
                /\ checked' = [n |-> checked.n + 1, ran |-> TRUE,
                               status |-> healthStatus,
                               hitRate |-> cacheStats.hitRate,
                               averageTime |-> monitor.stats.averageTime,
                               recentIssues |-> recentIssues,
                               cleared |-> critical("storage") \/ critical("cache"),
                               emergency |-> critical("performance")]

\* the timer of emergencyPerformanceOptimization fires
MonitoringResumes ==
    /\ debugMonitor.resumeAt >= 0
    /\ now >= debugMonitor.resumeAt
    /\ debugMonitor' = [debugMonitor EXCEPT !.monitoringEnabled = TRUE, !.resumeAt = -1]
    /\ UNCHANGED <<now, ticks, circuitBreaker, storage, pendingUpdates, calls, abandonedOps,
                   staleTimers, history, stats, last, monitor, measured, checked>>

\* the caller has taken the result or the error
Release(c) ==
    /\ calls[c].pc = "done"
    /\ calls' = [calls EXCEPT ![c] = IdleCall]
    /\ UNCHANGED <<stats, last, now, ticks, circuitBreaker, storage, pendingUpdates, abandonedOps,
                   staleTimers, history>>

\* The clock advances. A due timer's callback runs before a further second passes.
Tick(d, maxTicks) ==
    /\ NoneSettled
    /\ ~TimerDue
    /\ ticks < maxTicks
    /\ ticks' = ticks + 1
    /\ now' = now + d
    /\ UNCHANGED <<stats, last, circuitBreaker, storage, pendingUpdates, calls, abandonedOps,
                   staleTimers, history>>

(***************************************************************************)
(* The recipe page (pages/recipe): data.retryCount against data.maxRetries *)
(***************************************************************************)
\* Page.data, the fields the retry logic reads and writes; error and recipe are kept as
\* "set or null".  generating counts the smartGenerateRecipe promises in flight,
\* retryTimers the pending setTimeout(() => this.retryGenerate(), 1500), dialogs the open
\* error dialogs (each with the canRetry its handler computed).  loads and atLimit are
\* observations: the loadRecipe calls so far, and whether retryGenerate has been called
\* with retryCount = maxRetries.
NewPage ==
    [foodName |-> "", pageReady |-> FALSE, regenerate |-> FALSE, retryCount |-> 0,
     maxRetries |-> 3, loading |-> FALSE, error |-> FALSE, recipe |-> FALSE,
     generating |-> 0, retryTimers |-> 0, dialogs |-> {}, loads |-> 0, atLimit |-> FALSE]

\* handleRecipeError up to its dialog: the count goes up by one whatever it was
handleRecipeError(p, errorCode) ==
    LET retryCount == p.retryCount + 1
        canRetry == retryCount < p.maxRetries
    IN  [p EXCEPT !.loading = FALSE, !.error = TRUE, !.retryCount = retryCount,
                  !.recipe = FALSE,
                  !.dialogs = @ \cup {[kind |-> IF errorCode \in {"NETWORK_ERROR", "TIMEOUT_ERROR"}
                                                THEN "network" ELSE "unified",
                                       canRetry |-> canRetry]}]

\* handleRecipeSuccess: a recipe that fails validateRecipeData is handled as an error
handleRecipeSuccess(p, valid) ==
    IF valid
    THEN [p EXCEPT !.recipe = TRUE, !.loading = FALSE, !.error = FALSE]
    ELSE handleRecipeError(p, "UNKNOWN_ERROR")

\* loadRecipe up to the generation request; cachedRecipe is what CacheManager.get gave:
\* "none", or a recipe that is "valid" or "invalid"
loadRecipe(p, source, cachedRecipe) ==
    LET q == [p EXCEPT !.loads = @ + 1]
    IN  IF p.foodName = ""
        THEN [p EXCEPT !.loading = FALSE, !.error = TRUE, !.pageReady = FALSE]
        ELSE IF cachedRecipe # "none" /\ source # "retry" /\ ~p.regenerate
        THEN handleRecipeSuccess(q, cachedRecipe = "valid")
        ELSE [q EXCEPT !.loading = TRUE, !.error = FALSE, !.recipe = FALSE,
                       !.generating = @ + 1]

\* retryGenerate: no look at retryCount; a retry never reads the cache
retryGenerate(p) ==
    IF p.foodName # ""
    THEN loadRecipe([p EXCEPT !.atLimit = @ \/ p.retryCount = p.maxRetries], "retry", "none")
    ELSE p

\* onLoad -> initializePage with a valid foodName: the count starts at 0, then loadRecipe
PageOnLoad(foodName, regenerate, cachedRecipe) ==
    /\ page.foodName = ""
    /\ page' = loadRecipe([page EXCEPT !.foodName = foodName, !.pageReady = TRUE,
                                       !.regenerate = regenerate, !.error = FALSE,
                                       !.retryCount = 0],
                          "search", cachedRecipe)

\* onShow: after an error, showRetryOption opens its modal if retries are left
PageOnShow ==
    /\ page.pageReady /\ page.error
    /\ page.retryCount < page.maxRetries
    /\ [kind |-> "retryOption", canRetry |-> TRUE] \notin page.dialogs
    /\ page' = [page EXCEPT !.dialogs = @ \cup {[kind |-> "retryOption", canRetry |-> TRUE]}]

\* retryGenerate runs: called on the page (as the page's tests do), or by a retry timer
RetryGenerateCalled(byTimer, maxLoads) ==
    /\ page.pageReady
    /\ page.loads < maxLoads
    /\ byTimer => page.retryTimers > 0
    /\ page' = retryGenerate([page EXCEPT !.retryTimers = IF byTimer THEN @ - 1 ELSE @])

\* the generation settles: "recipe" is a valid recipe (generated, or the mock recipe after
\* a rejection); anything else ends in handleRecipeError (an invalid recipe, or a rejection
\* whose mock recipe fails as well) with that error code
GenerationSettles(outcome) ==
    /\ page.generating > 0
    /\ page' = LET p == [page EXCEPT !.generating = @ - 1]
               IN  IF outcome = "recipe" THEN handleRecipeSuccess(p, TRUE)
                   ELSE IF outcome = "invalid" THEN handleRecipeSuccess(p, FALSE)
                   ELSE handleRecipeError(p, outcome)

\* the user answers a dialog (or the dialog fails): the tail of handleRecipeError,
\* showErrorOptions' action sheet and showRetryOption's modal
DialogAnswered(d, action, maxLoads) ==
    /\ d \in page.dialogs
    /\ page.loads < maxLoads
    /\ LET p == [page EXCEPT !.dialogs = @ \ {d}]
           options == [kind |-> "options", canRetry |-> FALSE]
       IN  page' =
             IF d.kind \in {"network", "unified"}
             THEN IF action = "retry" /\ d.canRetry
                  THEN [p EXCEPT !.retryTimers = @ + 1]       \* setTimeout(retryGenerate, 1500)
                  ELSE IF d.kind = "network" \/ action = "fail"
                  THEN [p EXCEPT !.dialogs = @ \cup {options}] \* showErrorOptions
                  ELSE p                                       \* goHome
             ELSE IF action # "retry"
             THEN p                                            \* searchAgain, goHome
             ELSE IF d.kind = "options" /\ ~(p.retryCount < p.maxRetries)
             THEN p                                            \* showError
             ELSE retryGenerate(p)

\* resetPageState
ResetPageState ==
    /\ page.pageReady
    /\ page' = [page EXCEPT !.recipe = FALSE, !.loading = FALSE, !.error = FALSE,
                            !.retryCount = 0]

(***************************************************************************)
(* retryAsync (error handling module)                                      *)
(***************************************************************************)
\* An error is its message, kept as the set of the fragments classifyError searches for
\* that the message contains; a message that is exactly an error code is that code alone.
\* classifyError: the first rule that matches, in the order of the code
classifyError(errorMessage) ==
    LET ERROR_CODES ==
            {"NETWORK_ERROR", "TIMEOUT_ERROR", "IMAGE_TOO_LARGE", "IMAGE_FORMAT_ERROR",
             "RECOGNITION_FAILED", "NO_FOOD_DETECTED", "RECIPE_GENERATION_FAILED",
             "INVALID_FOOD_NAME", "SERVER_ERROR", "UNKNOWN_ERROR", "USER_CANCEL",
             "PERMISSION_DENIED"}
        includes(fragments) == errorMessage \cap fragments # {}
    IN  IF \E code \in ERROR_CODES : errorMessage = {code}
        THEN CHOOSE code \in ERROR_CODES : errorMessage = {code}
        ELSE IF includes({"network", "connection"}) THEN "NETWORK_ERROR"
        ELSE IF includes({"timeout"}) THEN "TIMEOUT_ERROR"
        ELSE IF includes({"5MB", "IMAGE_TOO_LARGE"}) THEN "IMAGE_TOO_LARGE"
        ELSE IF includes({"JPG", "PNG", "IMAGE_FORMAT_ERROR"}) THEN "IMAGE_FORMAT_ERROR"
        ELSE IF includes({"recognition failed", "RECOGNITION_FAILED"}) THEN "RECOGNITION_FAILED"
        ELSE IF includes({"no food detected", "NO_FOOD_DETECTED"}) THEN "NO_FOOD_DETECTED"
        ELSE IF includes({"recipe generation"}) THEN "RECIPE_GENERATION_FAILED"
        ELSE IF includes({"server", "500", "502", "503"}) THEN "SERVER_ERROR"
        ELSE IF includes({"cancel"}) THEN "USER_CANCEL"
        ELSE IF includes({"permission"}) THEN "PERMISSION_DENIED"
        ELSE "UNKNOWN_ERROR"

\* handleError of an error that is not yet an AppError: the AppError it returns
handleError(error, context) ==
    [code |-> classifyError(error), originalError |-> error, context |-> context]

noRetryErrors ==
    {"IMAGE_TOO_LARGE", "IMAGE_FORMAT_ERROR", "INVALID_FOOD_NAME", "USER_CANCEL",
     "PERMISSION_DENIED"}

\* One call of retryAsync: its closure (maxRetries, retryCount), whether an attempt is in
\* flight, whether setTimeout(attempt, delay) is pending, and the returned promise
\* ("idle" before the call) with what it settled with: [value |-> v] or an AppError.
\* calls and errors are observations: how often asyncFunction has been called and what
\* its attempts rejected with.
NoRetry ==
    [maxRetries |-> 0, retryCount |-> 0, attempting |-> FALSE, timer |-> FALSE,
     promise |-> "idle", result |-> [value |-> Null], calls |-> 0, errors |-> <<>>]

\* retryAsync(asyncFunction, maxRetries): the first attempt() runs in the executor
RetryAsync(maxRetries) ==
    /\ retrying.promise = "idle"
    /\ retrying' = [NoRetry EXCEPT !.maxRetries = maxRetries, !.promise = "pending",
                                   !.attempting = TRUE, !.calls = 1]

\* asyncFunction() resolves: .then(resolve)
AttemptResolves(value) ==
    /\ retrying.attempting
    /\ retrying' = [retrying EXCEPT !.attempting = FALSE, !.promise = "resolved",
                                    !.result = [value |-> value]]

\* asyncFunction() rejects: the .catch handler
AttemptRejects(error) ==
    /\ retrying.attempting
    /\ LET retryCount == retrying.retryCount + 1
           r == [retrying EXCEPT !.attempting = FALSE, !.retryCount = retryCount,
                                 !.errors = Append(@, error)]
       IN  retrying' =
             IF retryCount >= retrying.maxRetries
             THEN [r EXCEPT !.promise = "rejected",
                            !.result = handleError(error, "retry-failed")]
             ELSE IF classifyError(error) \in noRetryErrors
             THEN [r EXCEPT !.promise = "rejected",
                            !.result = handleError(error, "no-retry-error")]
             ELSE [r EXCEPT !.timer = TRUE]

\* a retry timer that starts at the first attempt's count again
RetryTimerFires_ResetsCount ==
    /\ retrying.timer
    /\ retrying' = [retrying EXCEPT !.timer = FALSE, !.attempting = TRUE, !.calls = @ + 1,
                                    !.retryCount = 0]

\* setTimeout(attempt, delay) fires: the next attempt()
RetryTimerFires ==
    /\ retrying.timer
    /\ retrying' = [retrying EXCEPT !.timer = FALSE, !.attempting = TRUE, !.calls = @ + 1]

-----------------------------------------------------------------------------
(* compressImages (utils/util.js) *)

\* the closure of one compressImages call: index counts the paths processNext has
\* taken, position k of imagePaths being the code's index k - 1; inFlight are the
\* positions whose compressImage is still pending, failed those whose compressImage
\* rejected
NoCompression ==
    [promise |-> "none", imagePaths |-> <<>>, concurrency |-> 0, index |-> 0,
     completed |-> 0, inFlight |-> {}, failed |-> {}, results |-> EmptyMap]

\* processNext(): resolve(results) when every path is taken and every compression has
\* settled, nothing when every path is taken and some are pending, else the
\* compressImage of the next path
processNext(c) ==
    IF c.index >= Len(c.imagePaths)
    THEN IF c.completed = Len(c.imagePaths) THEN [c EXCEPT !.promise = "resolved"] ELSE c
    ELSE [c EXCEPT !.index = @ + 1, !.inFlight = @ \cup {c.index + 1}]

\* compressImages(imagePaths, options), concurrency 0 standing for an options object
\* without concurrency: the executor runs processNext() Math.min(concurrency,
\* imagePaths.length) times
CompressImages(imagePaths, concurrency) ==
    /\ compressing.promise = "none"
    /\ compressing' =
         LET limit == IF concurrency = 0 THEN 3 ELSE concurrency
             loops == Min(limit, Len(imagePaths))
             started[i \in 0..loops] ==
                 IF i = 0
                 THEN [NoCompression EXCEPT !.promise = "pending",
                                            !.imagePaths = imagePaths,
                                            !.concurrency = limit]
                 ELSE processNext(started[i - 1])
         IN  started[loops]

\* compressImage(imagePath) of position k settles: .then stores the compressed path,
\* .catch the original one; both count it and call processNext()
CompressionSettles(k, compressed) ==
    /\ k \in compressing.inFlight
    /\ compressing' =
         processNext([compressing EXCEPT
             !.inFlight = @ \ {k},
             !.failed = IF compressed THEN @ ELSE @ \cup {k},
             !.results = Put(@, k, IF compressed THEN "tmp_" \o compressing.imagePaths[k]
                                                 ELSE compressing.imagePaths[k]),
             !.completed = @ + 1])

-----------------------------------------------------------------------------
(* SystemPerformanceDiagnostic *)

NoDiagnosis == [n |-> 0, cache |-> "none", page |-> "none"]

\* diagnoseCachePerformance: its status; cacheStats is what getStats() returns,
\* hitRate in hundredths. The test for critical is the else of the test for warning
diagnoseCachePerformance(cacheStats) ==
    IF cacheStats.hitRate < 50 THEN "warning"
    ELSE IF cacheStats.hitRate < 30 THEN "critical"
    ELSE "good"

\* diagnosePagePerformance: its status; performanceStats is PerformanceMonitor.stats.
\* The test for critical is the else of the test for warning
diagnosePagePerformance(performanceStats) ==
    LET avgTime == performanceStats.averageTime
    IN  IF avgTime.num > 3000 * avgTime.den THEN "warning"
        ELSE IF avgTime.num > 5000 * avgTime.den THEN "critical"
        ELSE "good"

\* runFullDiagnostic: what its cache and page diagnostics report
RunFullDiagnostic(maxRuns) ==
    /\ diagnosed.n < maxRuns
    /\ diagnosed' = [n |-> diagnosed.n + 1,
                     cache |-> diagnoseCachePerformance(getStats(stats)),
                     page |-> diagnosePagePerformance(monitor.stats)]
    /\ UNCHANGED <<now, ticks, circuitBreaker, storage, pendingUpdates, calls, abandonedOps,
                   staleTimers, history, stats, last, monitor, measured, debugMonitor,
                   checked, page, retrying, compressing>>

Init ==
    /\ now = 0
    /\ ticks = 0
    /\ circuitBreaker = EmptyMap
    /\ storage = EmptyMap
    /\ pendingUpdates = {}
    /\ calls = [c \in CallIds |-> IdleCall]
    /\ abandonedOps = 0
    /\ staleTimers = 0
    /\ history = [n \in ApiNames |-> NoHistory]
    /\ stats = NoStats
    /\ last = NoCall
    /\ monitor = NewMonitor
    /\ measured = NoMeasurement
    /\ debugMonitor = NewDebugMonitor
    /\ checked = NoCheck
    /\ page = NewPage
    /\ retrying = NoRetry
    /\ compressing = NoCompression
    /\ diagnosed = NoDiagnosis

NextOf(callers, options, results, errors, steps, maxTicks) ==
    \/ \E c \in callers, n \in ApiNames, o \in options : OptimizeAPICall(c, n, o)
    \/ \E c \in callers, e \in errors : OperationRejects(c, e)
    \/ \E c \in callers : TimeoutFires(c)
    \/ \E c \in callers : RetryAttempt(c)
    \/ \E c \in callers, r \in results, ok \in BOOLEAN : OperationResolves(c, r, ok)
    \/ AbandonedSettles
    \/ StaleTimerFires
    \/ \E u \in pendingUpdates : DeferredUpdate(u)
    \/ \E c \in callers : Release(c)
    \/ \E d \in steps : Tick(d, maxTicks)

\* The studies of optimizeAPICall and of CacheManager leave PerformanceMonitor and
\* DebugMonitor out: they keep their variables as they are.

\* the breaker study: the clock steps around the cooldown
Next ==
    /\ NextOf(OneCaller, OptionsOf(RetryCounts, BOOLEAN, {ApiCacheTime}), Results, OpErrors,
          BreakerSteps, MaxTicks)
    /\ UNCHANGED <<monitor, measured, debugMonitor, checked, page, retrying, compressing,
                   diagnosed>>
Spec == Init /\ [][Next]_vars

\* the cache study: the clock steps around the cache time, callers pass cacheTtlMs
NextCache ==
    /\ NextOf(OneCaller, OptionsOf(RetryCounts, {TRUE}, {60000, 300000}),
          {"r1", "r2", ""}, OpErrors \cup NonRetryableErrors, {1000, 300000}, MaxTicks)
    /\ UNCHANGED <<monitor, measured, debugMonitor, checked, page, retrying, compressing,
                   diagnosed>>
SpecCache == Init /\ [][NextCache]_vars

\* the retry study: the clock steps around the backoff delays and the timeout
NextRetry ==
    /\ NextOf(OneCaller, OptionsOf({0, 3, 4}, {TRUE}, {ApiCacheTime}), Results, OpErrors,
          {1000, 5000}, MaxRetryTicks)
    /\ UNCHANGED <<monitor, measured, debugMonitor, checked, page, retrying, compressing,
                   diagnosed>>
SpecRetry == Init /\ [][NextRetry]_vars

\* the store study: the callers of CacheManager, with a storage that may fail
StoreTtls == {1000, 2000}
StoreSteps == {1000}
RoomyInfo == [currentSize |-> 100, limitSize |-> 10240]
NextStore ==
    /\ \/ \E k \in StoreKeys, ttl \in StoreTtls, f \in {"none", "info", "write"} :
               CacheManagerSet(k, "v1", ttl, "normal", RoomyInfo, f, MaxCalls)
       \/ \E k \in StoreKeys, f \in {"none", "read", "remove"} : CacheManagerGet(k, f, MaxCalls)
       \/ \E k \in StoreKeys, f \in {"none", "remove"} : CacheManagerRemove(k, f, MaxCalls)
       \/ \E f \in {"none", "info", "remove"} : CacheManagerClear(f, MaxCalls)
       \/ \E u \in pendingUpdates : DeferredUpdate(u)
       \/ \E d \in StoreSteps : Tick(d, MaxStoreTicks)
    /\ UNCHANGED <<monitor, measured, debugMonitor, checked, page, retrying, compressing,
                   diagnosed>>
SpecStore == Init /\ [][NextStore]_vars

\* the eviction study: the storage holds 4 or 7 entries of mixed priority and
\* access count when the callers of CacheManager set an entry or clean up
EvictKinds == {[priority |-> "low", accessCount |-> 1],
               [priority |-> "normal", accessCount |-> 0],
               [priority |-> "normal", accessCount |-> 1],
               [priority |-> "high", accessCount |-> 0]}
EvictInfos == {[currentSize |-> 8191, limitSize |-> 10240],
               [currentSize |-> 8192, limitSize |-> 10240],
               [currentSize |-> 8193, limitSize |-> 10240],
               [currentSize |-> 9000, limitSize |-> 0]}
\* the entry set(key, "v1", DEFAULT_EXPIRE_TIME, {priority}) wrote at time 0, after
\* accessCount hits whose write-backs have run
EvictEntry(kind) ==
    [data |-> "v1", timestamp |-> 0, expireTime |-> DefaultExpireTime,
     compressed |-> FALSE, priority |-> kind.priority,
     accessCount |-> kind.accessCount, lastAccess |-> 0]
InitEvict ==
    /\ now = 0
    /\ ticks = 0
    /\ circuitBreaker = EmptyMap
    /\ \E n \in {4, 7} :
          \E kinds \in [{KeyOrder[i] : i \in 4..(3 + n)} -> EvictKinds] :
              storage = [k \in {KeyOrder[i] : i \in 4..(3 + n)} |-> EvictEntry(kinds[k])]
    /\ pendingUpdates = {}
    /\ calls = [c \in CallIds |-> IdleCall]
    /\ abandonedOps = 0
    /\ staleTimers = 0
    /\ history = [n \in ApiNames |-> NoHistory]
    /\ stats = NoStats
    /\ last = NoCall
    /\ monitor = NewMonitor
    /\ measured = NoMeasurement
    /\ debugMonitor = NewDebugMonitor
    /\ checked = NoCheck
    /\ page = NewPage
    /\ retrying = NoRetry
    /\ compressing = NoCompression
    /\ diagnosed = NoDiagnosis
NextEvict ==
    /\ \/ \E info \in EvictInfos, f \in {"none", "info", "write"} :
               CacheManagerSet("a", "v1", DefaultExpireTime, "normal", info, f, MaxEvictCalls)
       \/ \E f \in {"none", "info"} : CacheManagerCleanup(f, MaxEvictCalls)
    /\ UNCHANGED <<monitor, measured, debugMonitor, checked, page, retrying, compressing,
                   diagnosed>>
SpecEvict == InitEvict /\ [][NextEvict]_vars

\* the concurrency study: two callers, the clock steps around the cooldown
NextConcurrent ==
    /\ NextOf(CallIds, OptionsOf(RetryCounts, {TRUE}, {ApiCacheTime}), Results,
          OpErrors, BreakerSteps, MaxConcurrentTicks)
    /\ UNCHANGED <<monitor, measured, debugMonitor, checked, page, retrying, compressing,
                   diagnosed>>
SpecConcurrent == Init /\ [][NextConcurrent]_vars

\* the rewrite study: one key is set to one value and then to another, the cache
\* is cleared and its statistics are read, with hits, misses and write-backs in
\* between; the reads of the storage may fail
NextRewrite ==
    /\ \/ \E data \in {"v1", "v2"}, ttl \in StoreTtls :
               CacheManagerSet("a", data, ttl, "normal", RoomyInfo, "none", MaxRewriteCalls)
       \/ \E f \in {"none", "read"} : CacheManagerGet("a", f, MaxRewriteCalls)
       \/ CacheManagerClear("none", MaxRewriteCalls)
       \/ CacheManagerGetStats(MaxRewriteCalls)
       \/ \E u \in pendingUpdates : DeferredUpdate(u)
       \/ \E d \in StoreSteps : Tick(d, MaxStoreTicks)
    /\ UNCHANGED <<monitor, measured, debugMonitor, checked, page, retrying, compressing,
                   diagnosed>>
SpecRewrite == Init /\ [][NextRewrite]_vars

\* the monitor study: two names are measured, the clock steps by the durations
MonitorNames == {"m1", "m2"}
NextMonitor ==
    /\ \/ \E name \in MonitorNames : MonitorStart(name, MaxMonitorCalls)
       \/ \E name \in MonitorNames : MonitorEnd(name, MaxMonitorCalls)
       \/ \E d \in {100, 200, 300} : Tick(d, MaxMonitorTicks) /\ UNCHANGED <<monitor, measured>>
    /\ UNCHANGED <<debugMonitor, checked, page, retrying, compressing, diagnosed>>
SpecMonitor == Init /\ [][NextMonitor]_vars

\* the list study: the monitor has recorded 49 or 50 measurements of 500 ms and
\* then 19 or 20 of 6000 ms, all under the name m1, when further measurements
\* around the two thresholds are made
InitLists ==
    /\ now = 300000
    /\ ticks = 0
    /\ circuitBreaker = EmptyMap
    /\ storage = EmptyMap
    /\ pendingUpdates = {}
    /\ calls = [c \in CallIds |-> IdleCall]
    /\ abandonedOps = 0
    /\ staleTimers = 0
    /\ history = [n \in ApiNames |-> NoHistory]
    /\ stats = NoStats
    /\ last = NoCall
    /\ \E fill \in {[fast |-> f, slow |-> w] : f \in {49, 50}, w \in {19, 20}} :
          LET FastEntry(j) == [name |-> "m1", duration |-> 500, timestamp |-> 1000 * j]
              SlowEntry(j) == [name |-> "m1", duration |-> 6000,
                               timestamp |-> 100000 + 7000 * j]
              fastOps == [j \in 1..fill.fast |-> FastEntry(j)]
              slowOps == [j \in 1..fill.slow |-> SlowEntry(j)]
              latest == SlowEntry(fill.slow)
          IN  /\ monitor =
                    [records |-> Put(EmptyMap, "m1",
                                     [startTime |-> latest.timestamp,
                                      endTime |-> latest.timestamp + latest.duration,
                                      duration |-> latest.duration]),
                     stats |-> [totalOperations |-> fill.fast + fill.slow,
                                averageTime |-> Quotient(500 * fill.fast + 6000 * fill.slow,
                                                         fill.fast + fill.slow),
                                slowOperations |-> slowOps,
                                fastOperations |-> fastOps]]
              /\ measured = [NoMeasurement EXCEPT !.log = fastOps \o slowOps]
    /\ debugMonitor = NewDebugMonitor
    /\ checked = NoCheck
    /\ page = NewPage
    /\ retrying = NoRetry
    /\ compressing = NoCompression
    /\ diagnosed = NoDiagnosis
NextLists ==
    /\ \/ \E name \in MonitorNames : MonitorStart(name, MaxListCalls)
       \/ \E name \in MonitorNames : MonitorEnd(name, MaxListCalls)
       \/ \E d \in {999, 1000, 5000, 5001} :
               Tick(d, MaxListTicks) /\ UNCHANGED <<monitor, measured>>
    /\ UNCHANGED <<debugMonitor, checked, page, retrying, compressing, diagnosed>>
SpecLists == InitLists /\ [][NextLists]_vars

\* the health study: 30 s after the start, the cache has counted its gets, the
\* monitor has measured nothing or one operation, the storage holds four entries,
\* the first of them expired, and the health check runs every 30 s; the storage
\* works
InitHealth ==
    /\ now = 30000
    /\ ticks = 0
    /\ circuitBreaker = EmptyMap
    /\ storage = [k \in {KeyOrder[i] : i \in 4..7} |->
                    [EvictEntry([priority |-> "normal", accessCount |-> 0]) EXCEPT
                        !.expireTime = IF k = KeyOrder[4] THEN 1000 ELSE DefaultExpireTime]]
    /\ pendingUpdates = {}
    /\ calls = [c \in CallIds |-> IdleCall]
    /\ abandonedOps = 0
    /\ staleTimers = 0
    /\ history = [n \in ApiNames |-> NoHistory]
    /\ \E c \in {<<0, 0>>, <<29, 71>>, <<8, 19>>, <<30, 70>>, <<49, 51>>, <<50, 50>>} :
          stats = [hits |-> c[1], misses |-> c[2], sets |-> 5, removes |-> 1]
    /\ last = NoCall
    /\ \E d \in {0, 3000, 3001, 5000, 5001} :
          LET entry == [name |-> "m1", duration |-> d, timestamp |-> 0]
          IN  IF d = 0
              THEN monitor = NewMonitor /\ measured = NoMeasurement
              ELSE /\ monitor =
                         [records |-> Put(EmptyMap, "m1", [startTime |-> 0, endTime |-> d,
                                                           duration |-> d]),
                          stats |-> [totalOperations |-> 1,
                                     averageTime |-> Quotient(d, 1),
                                     slowOperations |-> IF d > 5000 THEN <<entry>> ELSE <<>>,
                                     fastOperations |-> <<>>]]
                   /\ measured = [NoMeasurement EXCEPT !.log = <<entry>>]
    /\ debugMonitor = NewDebugMonitor
    /\ checked = NoCheck
    /\ page = NewPage
    /\ retrying = NoRetry
    /\ compressing = NoCompression
    /\ diagnosed = NoDiagnosis
NextHealth ==
    /\ \/ \E currentSize \in {8000, 8500, 9500}, issues \in {0, 6, 11}, errors \in {0, 11} :
               PerformHealthCheck([currentSize |-> currentSize, limitSize |-> 10240],
                                  issues, errors, MaxHealthChecks)
       \/ MonitoringResumes
       \/ /\ Tick(30000, MaxHealthTicks)
          /\ now - debugMonitor.lastCheck < 30000
          /\ ~(debugMonitor.resumeAt >= 0 /\ now >= debugMonitor.resumeAt)
          /\ UNCHANGED <<monitor, measured, debugMonitor, checked>>
    /\ UNCHANGED <<page, retrying, compressing, diagnosed>>
SpecHealth == InitHealth /\ [][NextHealth]_vars

\* the study of the two classifiers: the health checks, and the diagnostic run on the
\* same CacheManager and PerformanceMonitor
NextDiagnose == NextHealth \/ RunFullDiagnostic(MaxDiagnoses)
SpecDiagnose == InitHealth /\ [][NextDiagnose]_vars

\* the recipe page study: one page instance, every way its handlers can be driven
NextPage ==
    /\ \/ \E regenerate \in BOOLEAN, cachedRecipe \in {"none", "valid", "invalid"} :
               PageOnLoad("tofu", regenerate, cachedRecipe)
       \/ PageOnShow
       \/ \E byTimer \in BOOLEAN : RetryGenerateCalled(byTimer, MaxPageLoads)
       \/ \E outcome \in {"recipe", "invalid", "NETWORK_ERROR", "SERVER_ERROR"} :
               GenerationSettles(outcome)
       \/ \E d \in page.dialogs, action \in {"retry", "cancel", "fail"} :
               DialogAnswered(d, action, MaxPageLoads)
       \/ ResetPageState
    /\ UNCHANGED <<now, ticks, circuitBreaker, storage, pendingUpdates, calls, abandonedOps,
                   staleTimers, history, stats, last, monitor, measured, debugMonitor,
                   checked, retrying, compressing, diagnosed>>
SpecPage == Init /\ [][NextPage]_vars

\* the retryAsync study: one call with maxRetries between 0 and the bound (3 is the
\* default), a wrapped function whose every call settles, and timers that fire
DefaultMaxRetries == 3
NextRetryAsync ==
    /\ \/ \E maxRetries \in 0..MaxRetriesArg : RetryAsync(maxRetries)
       \/ \E value \in {"v1", "v2"} : AttemptResolves(value)
       \/ \E error \in {{"NETWORK_ERROR"}, {"timeout"}, {"network", "permission"}, {},
                         {"IMAGE_TOO_LARGE"}, {"JPG"}, {"INVALID_FOOD_NAME"}, {"cancel"},
                         {"permission"}} :
               AttemptRejects(error)
       \/ RetryTimerFires
    /\ UNCHANGED <<now, ticks, circuitBreaker, storage, pendingUpdates, calls, abandonedOps,
                   staleTimers, history, stats, last, monitor, measured, debugMonitor,
                   checked, page, compressing, diagnosed>>
SpecRetryAsync == Init /\ [][NextRetryAsync]_vars /\ WF_vars(NextRetryAsync)

\* the compressImages study: one call with a list of up to MaxImages paths and a
\* concurrency option (0: none given), every compressImage of which settles
NextCompress ==
    /\ \/ \E n \in 0..MaxImages, concurrency \in {0, 1, 2, 5} :
               \E imagePaths \in [1..n -> {"a.jpg", "b.jpg"}] :
                   CompressImages(imagePaths, concurrency)
       \/ \E k \in 1..MaxImages, compressed \in BOOLEAN : CompressionSettles(k, compressed)
    /\ UNCHANGED <<now, ticks, circuitBreaker, storage, pendingUpdates, calls, abandonedOps,
                   staleTimers, history, stats, last, monitor, measured, debugMonitor,
                   checked, page, retrying, diagnosed>>
SpecCompress == Init /\ [][NextCompress]_vars /\ WF_vars(NextCompress)

-----------------------------------------------------------------------------
(* What the steps of a call look like *)

\* call c starts in this step (optimizeAPICall is entered)
Starts(c) == calls[c].pc = "idle" /\ calls'[c].pc # "idle"

\* call c starts and its first apiFunction() call is made
StartsOperation(c) ==
    Starts(c) /\ calls'[c].pc = "attempt" /\ calls'[c].opCalls = 1

\* call c starts and is rejected by the breaker, without any attempt or wait
StartsRejected(c) ==
    /\ Starts(c)
    /\ calls'[c].pc = "done"
    /\ calls'[c].outcome = "threw"
    /\ calls'[c].value = CircuitOpenError(calls'[c].apiName)
    /\ calls'[c].opCalls = 0
    /\ calls'[c].delays = <<>>

\* call c starts and is served from the cache, without any attempt
StartsFromCache(c) ==
    /\ Starts(c)
    /\ calls'[c].pc = "done"
    /\ calls'[c].outcome = "returned"
    /\ calls'[c].source = "cache"
    /\ calls'[c].opCalls = 0

\* call c returns a result of the operation in this step
ReturnsFromOperation(c) ==
    /\ calls[c].pc = "attempt"
    /\ calls'[c].pc = "done"
    /\ calls'[c].outcome = "returned"

\* call c throws after its last attempt failed
ThrowsFromOperation(c) ==
    /\ calls[c].pc = "attempt"
    /\ calls'[c].pc = "done"
    /\ calls'[c].outcome = "threw"

\* the cache holds a valid entry with a truthy payload for apiName
ValidCache(apiName) ==
    /\ CacheHit(storage, ApiKey(apiName), now)
    /\ Truthy(storage[PREFIX \o ApiKey(apiName)].data)

\* the breaker of apiName is open and its cooldown has not elapsed
OpenUnexpired(apiName) ==
    /\ Has(circuitBreaker, apiName)
    /\ circuitBreaker[apiName].state = "open"
    /\ now - circuitBreaker[apiName].lastFailTime <= 60000

\* PerformanceMonitor as a step of optimizeAPICall drives it: start(`api_${apiName}`) on
\* entry, end after the await of executeWithRetry and in the catch block
MonitorOfCall(c) ==
    LET name == "api_" \o calls'[c].apiName
        started == MonitorStarted(monitor, name, now)
    IN  IF Starts(c)
        THEN IF calls'[c].pc = "done" /\ calls'[c].outcome = "threw"
             THEN MonitorEnded(started, name, now)     \* the breaker's throw is caught
             ELSE started                              \* return cachedResult, or the await
        ELSE IF calls[c].pc = "attempt" /\ calls'[c].pc = "done"
        THEN MonitorEnded(monitor, "api_" \o calls[c].apiName, now)
        ELSE monitor

\* the study of the performance records of optimizeAPICall: one caller, with the
\* monitor following its calls; measured.n counts the calls started
NextMeasured ==
    /\ NextOf(OneCaller, OptionsOf({0, 1}, BOOLEAN, {ApiCacheTime}), Results, OpErrors,
              {1000, 6000}, MaxMeasuredTicks)
    /\ Starts("c1") => measured.n < MaxMeasuredCalls
    /\ monitor' = MonitorOfCall("c1")
    /\ measured' = [measured EXCEPT !.n = IF Starts("c1") THEN @ + 1 ELSE @]
    /\ UNCHANGED <<debugMonitor, checked, page, retrying, compressing, diagnosed>>
SpecMeasured == Init /\ [][NextMeasured]_vars

\* the termination study: one call, made before the clock has advanced, of an operation
\* that never settles before the timer of the attempt fires (a promise that has lost its
\* race is forgotten at some time: AbandonedSettles).  Timers that are due fire, and the
\* clock advances while none is due.
NextTerminates ==
    /\ \/ \E o \in OptionsOf({0, 1, 4}, BOOLEAN, {ApiCacheTime}) :
               ticks = 0 /\ OptimizeAPICall("c1", "X", o)
       \/ TimeoutFires("c1")
       \/ RetryAttempt("c1")
       \/ AbandonedSettles
       \/ Release("c1")
       \/ \E d \in {1000, 5000} : Tick(d, MaxTerminateTicks)
    /\ UNCHANGED <<monitor, measured, debugMonitor, checked, page, retrying, compressing,
                   diagnosed>>
SpecTerminates ==
    /\ Init /\ [][NextTerminates]_vars
    /\ WF_vars(NextTerminates /\ TimeoutFires("c1"))
    /\ WF_vars(NextTerminates /\ RetryAttempt("c1"))
    /\ WF_vars(NextTerminates /\ AbandonedSettles)
    /\ WF_vars(NextTerminates /\ \E d \in {1000, 5000} : Tick(d, MaxTerminateTicks))

-----------------------------------------------------------------------------
(* C1: with the threshold of 5, the fifth consecutive failed call (breaker    *)
(* enabled, retries exhausted) leaves the breaker open; every call started   *)
(* before the cooldown has elapsed since the last of these failures is       *)
(* rejected with the circuit-open error without an attempt or a wait; after  *)
(* one to four consecutive failures a call that misses the cache still calls *)
(* the operation.                                                            *)
C1_BreakerTrip ==
    [][\A c \in CallIds :
        /\ \A n \in ApiNames :
              (ThrowsFromOperation(c) /\ calls[c].apiName = n
                 /\ calls[c].options.circuitBreakerEnabled
                 /\ history'[n].consecutiveFailures >= 5)
              => circuitBreakerStatus(circuitBreaker', n) = "open"
        /\ (Starts(c) /\ calls'[c].options.circuitBreakerEnabled
              /\ history[calls'[c].apiName].consecutiveFailures >= 5
              /\ now - history[calls'[c].apiName].lastFailureAt < 60000)
           => StartsRejected(c)
        /\ (Starts(c) /\ calls'[c].options.circuitBreakerEnabled
              /\ history[calls'[c].apiName].consecutiveFailures \in 1..4
              /\ ~(calls'[c].options.cacheEnabled /\ ValidCache(calls'[c].apiName)))
           => StartsOperation(c)
    ]_vars

\* the sixth call has been rejected after five consecutive failures
C1_Witness ==
    \E c \in CallIds :
        /\ calls[c].pc = "done"
        /\ calls[c].source = "breaker"
        /\ calls[c].opCalls = 0
        /\ history[calls[c].apiName].consecutiveFailures = 5
        /\ circuitBreaker[calls[c].apiName].failureCount = 6

-----------------------------------------------------------------------------
(* C2: half-open recovery. Once the cooldown (60 s) has elapsed since the    *)
(* breaker tripped, the next call is let through as the half-open trial; if  *)
(* the trial returns a result of the operation the breaker is closed with    *)
(* failureCount 0; if it fails the breaker is open again and the cooldown    *)
(* runs from that failure.                                                   *)
C2_HalfOpenRecovery ==
    [][\A c \in CallIds :
        LET n == calls'[c].apiName
            m == calls[c].apiName
        IN
        /\ (Starts(c) /\ calls'[c].options.circuitBreakerEnabled
              /\ circuitBreakerStatus(circuitBreaker, n) = "open"
              /\ now - history[n].lastFailureAt > 60000)
           => /\ ~StartsRejected(c)
              /\ circuitBreakerStatus(circuitBreaker', n) = "half-open"
        /\ (ReturnsFromOperation(c)
              /\ circuitBreakerStatus(circuitBreaker, m) = "half-open")
           => /\ circuitBreakerStatus(circuitBreaker', m) = "closed"
              /\ FailureCount(circuitBreaker', m) = 0
        /\ (ThrowsFromOperation(c) /\ calls[c].options.circuitBreakerEnabled
              /\ circuitBreakerStatus(circuitBreaker, m) = "half-open")
           => /\ circuitBreakerStatus(circuitBreaker', m) = "open"
              /\ circuitBreaker'[m].lastFailTime = now
    ]_vars

-----------------------------------------------------------------------------
-----------------------------------------------------------------------------
(* C4: a call makes at most retryCount + 1 calls of the operation, and a     *)
(* further one only after the previous attempt failed; with retryCount = 3   *)
(* and two failed attempts followed by a success the call returns the result *)
(* after exactly 3 calls of the operation.                                   *)
C4_AttemptsBounded ==
    [][\A c \in CallIds :
        /\ calls'[c].pc # "idle" => calls'[c].opCalls <= calls'[c].options.retryCount + 1
        /\ (calls[c].pc # "idle" /\ calls'[c].opCalls # calls[c].opCalls
              /\ calls'[c].pc # "idle")
           => /\ calls[c].pc = "backoff"
              /\ calls[c].lastError # Null
              /\ calls'[c].opCalls = calls[c].opCalls + 1
        /\ (ReturnsFromOperation(c) /\ calls[c].options.retryCount = 3
              /\ Len(calls[c].delays) = 2)
           => /\ calls'[c].opCalls = 3
              /\ calls'[c].source = "operation"
    ]_vars

\* a call with retryCount = 3 has returned a result at its third attempt
C4_Witness ==
    \E c \in CallIds :
        /\ calls[c].pc = "done"
        /\ calls[c].outcome = "returned"
        /\ calls[c].source = "operation"
        /\ calls[c].options.retryCount = 3
        /\ calls[c].opCalls = 3
        /\ calls[c].value = "r1"

-----------------------------------------------------------------------------
(* C5: the wait after the failed attempt i (from 0) is min(1000 * 2^i, 5000) *)
(* ms and the next attempt does not start before it is over; no wait follows *)
(* the last attempt; with retryCount = 3 the waits of a call are strictly    *)
(* increasing.                                                               *)
C5_Backoff ==
    [][\A c \in CallIds :
        LET k == calls[c]
            wait == IF 1000 * (2 ^ k.i) < 5000 THEN 1000 * (2 ^ k.i) ELSE 5000
        IN
        /\ (k.pc = "attempt" /\ calls'[c].pc = "backoff")
           => /\ k.i < k.options.retryCount
              /\ calls'[c].delays = Append(k.delays, wait)
              /\ calls'[c].timer = now + wait
        /\ (k.pc = "backoff" /\ calls'[c].pc # "backoff")
           => /\ calls'[c].pc = "attempt"
              /\ now - k.failedAt >= k.delays[Len(k.delays)]
        /\ (k.pc = "attempt" /\ k.i = k.options.retryCount /\ calls'[c] # k)
           => /\ calls'[c].pc = "done"
              /\ calls'[c].delays = k.delays
        /\ (calls'[c].pc # "idle" /\ calls'[c].options.retryCount = 3)
           => \A j \in 1..(Len(calls'[c].delays) - 1) :
                  calls'[c].delays[j] < calls'[c].delays[j + 1]
    ]_vars

\* a call has waited 1000, 2000, 4000 and then the capped 5000 ms
C5_Witness ==
    \E c \in CallIds :
        /\ calls[c].pc = "attempt"
        /\ calls[c].delays = <<1000, 2000, 4000, 5000>>

-----------------------------------------------------------------------------
(* C6: when a call returns a result of the operation, the breaker of its     *)
(* name is closed with failureCount 0, whatever it was before.               *)
C6_SuccessClosesBreaker ==
    [][\A c \in CallIds :
        ReturnsFromOperation(c)
        => /\ circuitBreakerStatus(circuitBreaker', calls[c].apiName) = "closed"
           /\ FailureCount(circuitBreaker', calls[c].apiName) = 0
    ]_vars

\* a call has returned a result of the operation for a name that had failed before
C6_Witness ==
    \E c \in CallIds :
        /\ calls[c].pc = "done"
        /\ calls[c].outcome = "returned"
        /\ calls[c].source = "operation"
        /\ Has(circuitBreaker, calls[c].apiName)
        /\ circuitBreaker[calls[c].apiName].lastFailTime > 60000
        /\ circuitBreaker[calls[c].apiName].state = "closed"
        /\ circuitBreaker[calls[c].apiName].failureCount = 0

-----------------------------------------------------------------------------
\* the cache entry of apiName, when there is one
Entry(st, apiName) == st[PREFIX \o ApiKey(apiName)]
HasEntry(st, apiName) == Has(st, PREFIX \o ApiKey(apiName))

\* call c, about to start, passes the breaker check
PassesBreaker(c) ==
    ~(calls'[c].options.circuitBreakerEnabled /\ OpenUnexpired(calls'[c].apiName))

(* C7 as claimed: after a call with cacheEnabled returns a result of the     *)
(* operation, the cache holds that result under the name, for every result   *)
(* value; a following call with cacheEnabled gets it from the cache.         *)
C7_EveryResultCached ==
    [][\A c \in CallIds :
        /\ (ReturnsFromOperation(c) /\ calls[c].options.cacheEnabled)
           => /\ HasEntry(storage', calls[c].apiName)
              /\ Entry(storage', calls[c].apiName).data = calls'[c].value
        /\ (Starts(c) /\ calls'[c].options.cacheEnabled /\ PassesBreaker(c)
              /\ CacheHit(storage, ApiKey(calls'[c].apiName), now))
           => /\ StartsFromCache(c)
              /\ calls'[c].value = Entry(storage, calls'[c].apiName).data
    ]_vars

(* C7 as amended: after a call with cacheEnabled returns a truthy result of  *)
(* the operation, the cache holds that result under the name, stamped with   *)
(* the time of the return; a falsy result ("" here) is not cached and leaves *)
(* the cache as it was. A call with cacheEnabled that passes the breaker     *)
(* check while the entry is valid returns the entry's payload without        *)
(* calling the operation.                                                    *)
C7_TruthyResultCached ==
    [][\A c \in CallIds :
        /\ (ReturnsFromOperation(c) /\ calls[c].options.cacheEnabled
              /\ Truthy(calls'[c].value))
           => /\ HasEntry(storage', calls[c].apiName)
              /\ Entry(storage', calls[c].apiName).data = calls'[c].value
              /\ Entry(storage', calls[c].apiName).timestamp = now
              /\ CacheGetValue(storage', ApiKey(calls[c].apiName), now) = calls'[c].value
        /\ (ReturnsFromOperation(c)
              /\ ~(calls[c].options.cacheEnabled /\ Truthy(calls'[c].value)))
           => storage' = storage
        /\ (Starts(c) /\ calls'[c].options.cacheEnabled /\ PassesBreaker(c)
              /\ ValidCache(calls'[c].apiName))
           => /\ StartsFromCache(c)
              /\ calls'[c].value = Entry(storage, calls'[c].apiName).data
    ]_vars

\* a call has been served from the cache the result "r2" an earlier call left there
C7_Witness ==
    \E c \in CallIds :
        /\ calls[c].pc = "done"
        /\ calls[c].source = "cache"
        /\ calls[c].value = "r2"
        /\ calls[c].opCalls = 0
        /\ HasEntry(storage, calls[c].apiName)
        /\ Entry(storage, calls[c].apiName).data = "r2"

-----------------------------------------------------------------------------
(* C8 as claimed: the entry a successful call writes lives for the           *)
(* cacheTtlMs of that call's options: a call with cacheEnabled started less  *)
(* than that after the write is served from the cache, one started more than *)
(* that after it calls the operation.                                        *)
C8_CallerTtl ==
    [][\A c \in CallIds :
        /\ (ReturnsFromOperation(c) /\ calls[c].options.cacheEnabled
              /\ Truthy(calls'[c].value))
           => /\ HasEntry(storage', calls[c].apiName)
              /\ Entry(storage', calls[c].apiName).timestamp = now
              /\ Entry(storage', calls[c].apiName).expireTime
                    = calls[c].options.cacheTtlMs
        /\ (Starts(c) /\ calls'[c].options.cacheEnabled /\ PassesBreaker(c)
              /\ HasEntry(storage, calls'[c].apiName)
              /\ Truthy(Entry(storage, calls'[c].apiName).data))
           => LET e == Entry(storage, calls'[c].apiName) IN
              /\ now - e.timestamp < e.expireTime => StartsFromCache(c)
              /\ now - e.timestamp > e.expireTime => StartsOperation(c)
    ]_vars

(* C8 as amended: the entry a successful call writes lives for 300000 ms,    *)
(* whatever cacheTtlMs the call's options give: a call with cacheEnabled     *)
(* that passes the breaker check less than 300000 ms after the write is      *)
(* served from the cache, one started more than 300000 ms after it calls the *)
(* operation.                                                                *)
C8_FixedTtl ==
    [][\A c \in CallIds :
        /\ (ReturnsFromOperation(c) /\ calls[c].options.cacheEnabled
              /\ Truthy(calls'[c].value))
           => /\ HasEntry(storage', calls[c].apiName)
              /\ Entry(storage', calls[c].apiName).timestamp = now
              /\ Entry(storage', calls[c].apiName).expireTime = 300000
        /\ (Starts(c) /\ calls'[c].options.cacheEnabled /\ PassesBreaker(c)
              /\ HasEntry(storage, calls'[c].apiName)
              /\ Truthy(Entry(storage, calls'[c].apiName).data))
           => LET e == Entry(storage, calls'[c].apiName) IN
              /\ now - e.timestamp < 300000 => StartsFromCache(c)
              /\ now - e.timestamp > 300000 => StartsOperation(c)
    ]_vars

\* a call has been served from the cache more than 60000 ms after the write
C8_Witness ==
    \E c \in CallIds :
        /\ calls[c].pc = "done"
        /\ calls[c].source = "cache"
        /\ HasEntry(storage, calls[c].apiName)
        /\ now - Entry(storage, calls[c].apiName).timestamp > 60000

-----------------------------------------------------------------------------
(* C9: when all retryCount + 1 attempts of a call fail, the call throws the  *)
(* error of its last attempt (a rejection of the operation, or the timeout), *)
(* and with the breaker enabled failureCount grows by exactly 1 for the call *)
(* (the failed attempts before the last one leave the breaker alone),        *)
(* lastFailTime is the time of the failure, and the breaker is open when the *)
(* count has reached the threshold of 5.                                     *)
C9_ExhaustedRetries ==
    [][\A c \in CallIds :
        LET k == calls[c]
            n == k.apiName
        IN
        /\ (k.pc = "attempt" /\ k.i = k.options.retryCount
              /\ abandonedOps' = abandonedOps + 1)
           => ThrowsFromOperation(c)
        /\ ThrowsFromOperation(c)
           => /\ k.i = k.options.retryCount
              /\ k.opCalls = k.options.retryCount + 1
              /\ staleTimers' = staleTimers + 1 => calls'[c].value \in OpErrors
              /\ abandonedOps' = abandonedOps + 1 => calls'[c].value = TimeoutError
              /\ k.options.circuitBreakerEnabled
                 => /\ Has(circuitBreaker', n)
                    /\ circuitBreaker'[n].failureCount
                          = FailureCount(circuitBreaker, n) + 1
                    /\ circuitBreaker'[n].lastFailTime = now
                    /\ circuitBreaker'[n].failureCount >= 5
                          => circuitBreaker'[n].state = "open"
        /\ (k.pc = "attempt" /\ calls'[c].pc = "backoff")
           => circuitBreaker' = circuitBreaker
    ]_vars

\* a call has thrown the timeout of its second attempt, the operation of which is
\* still pending, and the breaker has counted one failure for the two attempts
C9_Witness ==
    \E c \in CallIds :
        /\ calls[c].pc = "done"
        /\ calls[c].outcome = "threw"
        /\ calls[c].opCalls = 2
        /\ calls[c].value = TimeoutError
        /\ abandonedOps = 1
        /\ calls[c].options.circuitBreakerEnabled
        /\ circuitBreaker[calls[c].apiName].failureCount = 1
        /\ circuitBreaker[calls[c].apiName].lastFailTime = now
        /\ now > 0

-----------------------------------------------------------------------------
(* C10: when the timer of an attempt fires before the operation settles, the *)
(* attempt is a failed attempt with the timeout error, retried as any other  *)
(* failure; an abandoned operation that settles later changes neither a      *)
(* call, nor the breaker, nor the cache; and the timer of an attempt the     *)
(* operation has settled changes nothing when it fires.                      *)
C10_TimeoutRace ==
    [][/\ abandonedOps' = abandonedOps + 1
          => \E c \in CallIds :
                LET k == calls[c] IN
                /\ k.pc = "attempt"
                /\ now >= k.timer
                /\ calls'[c].lastError = TimeoutError
                /\ calls'[c].opCalls = k.opCalls
                /\ IF k.i < k.options.retryCount
                   THEN /\ calls'[c].pc = "backoff"
                        /\ calls'[c].timer = now + RetryDelay(k.i)
                        /\ circuitBreaker' = circuitBreaker
                   ELSE /\ calls'[c].pc = "done"
                        /\ calls'[c].outcome = "threw"
                        /\ calls'[c].value = TimeoutError
       /\ (abandonedOps' < abandonedOps \/ staleTimers' < staleTimers)
          => /\ calls' = calls
             /\ circuitBreaker' = circuitBreaker
             /\ storage' = storage
             /\ pendingUpdates' = pendingUpdates
    ]_vars

\* an attempt has timed out and is being retried while its operation is still pending
C10_Witness ==
    \E c \in CallIds :
        /\ calls[c].pc = "attempt"
        /\ calls[c].opCalls = 2
        /\ calls[c].lastError = TimeoutError
        /\ abandonedOps = 1
        /\ Has(circuitBreaker, calls[c].apiName)

-----------------------------------------------------------------------------
(* C11 as claimed: an attempt that fails with an error the caller has marked *)
(* as not to be retried ends the call at once: the error is thrown to the    *)
(* caller, no wait and no further call of the operation follow, so that the  *)
(* operation has been called exactly once when it is the first attempt.      *)
C11_NonRetryableSurfaced ==
    [][\A c \in CallIds :
        LET k == calls[c] IN
        (k.pc = "attempt" /\ k.lastError \notin NonRetryableErrors
           /\ calls'[c].lastError \in NonRetryableErrors)
        => /\ ThrowsFromOperation(c)
           /\ calls'[c].value = calls'[c].lastError
           /\ k.i = 0 => calls'[c].opCalls = 1
    ]_vars

(* C11 as amended: every error of the operation, marked by its caller or     *)
(* not, is retried alike: an attempt that fails with retries left is         *)
(* followed by the backoff wait min(1000 * 2^i, 5000) and the error is not   *)
(* thrown; the error of the attempt number retryCount is thrown to the       *)
(* caller.                                                                   *)
C11_EveryErrorRetried ==
    [][\A c \in CallIds :
        LET k == calls[c] IN
        (k.pc = "attempt" /\ k.lastError = Null
           /\ calls'[c].lastError \in OpErrors \cup NonRetryableErrors)
        => IF k.i < k.options.retryCount
           THEN /\ calls'[c].pc = "backoff"
                /\ calls'[c].outcome = "none"
                /\ calls'[c].timer = now + RetryDelay(k.i)
           ELSE /\ ThrowsFromOperation(c)
                /\ calls'[c].value = calls'[c].lastError
    ]_vars

\* the operation is being called a second time after it failed with an error
\* marked as not to be retried
C11_Witness ==
    \E c \in CallIds :
        /\ calls[c].pc = "attempt"
        /\ calls[c].opCalls = 2
        /\ calls[c].lastError \in NonRetryableErrors

-----------------------------------------------------------------------------
\* call d is in flight: it has reached the operation and has not settled
InFlight(d) == calls[d].pc \in {"attempt", "backoff"}

(* C12: half-open admits exactly one probe: while the call whose breaker     *)
(* check ended the cooldown is still in flight, a further call for the same  *)
(* name (breaker enabled) is rejected without calling the operation.         *)
C12_SingleProbe ==
    [][\A c, d \in CallIds :
        (/\ c # d
         /\ InFlight(d) /\ calls[d].probe
         /\ Starts(c)
         /\ calls'[c].apiName = calls[d].apiName
         /\ calls'[c].options.circuitBreakerEnabled)
        => StartsRejected(c)
    ]_vars

-----------------------------------------------------------------------------
(* C14: calls for one name are not deduplicated: a call started while        *)
(* another call for the name is in flight, with no valid cache entry and the *)
(* breaker not open, calls the operation itself and starts its own timer,    *)
(* and leaves the other call as it is; and no step of one call in flight     *)
(* (a failure, a timeout, a retry, a result) changes the other.              *)
C14_NotDeduplicated ==
    [][\A c, d \in CallIds :
        c # d =>
        /\ (/\ InFlight(d)
             /\ Starts(c)
             /\ calls'[c].apiName = calls[d].apiName
             /\ ~CacheHit(storage, ApiKey(calls[d].apiName), now)
             /\ ~(/\ Has(circuitBreaker, calls[d].apiName)
                   /\ circuitBreaker[calls[d].apiName].state = "open"))
            => /\ StartsOperation(c)
               /\ calls'[c].timer = now + calls'[c].options.timeout
               /\ calls'[c].delays = <<>>
               /\ calls'[d] = calls[d]
        /\ (InFlight(c) /\ InFlight(d) /\ calls'[c] # calls[c])
            => calls'[d] = calls[d]
    ]_vars

\* two calls for one name are in flight, started at different times, each with an
\* attempt and a timer of its own; one of them is at its second attempt
C14_Witness ==
    \E c, d \in CallIds :
        /\ c # d
        /\ calls[c].pc = "attempt" /\ calls[d].pc = "attempt"
        /\ calls[c].apiName = calls[d].apiName
        /\ calls[c].opCalls = 2 /\ calls[d].opCalls = 1
        /\ calls[c].timer # calls[d].timer

-----------------------------------------------------------------------------
\* the breaker of apiName is stored as open
StoredOpen(cb, apiName) == Has(cb, apiName) /\ cb[apiName].state = "open"

(* C13 as claimed: in every state and for every name, the breaker is open    *)
(* only if failureCount >= 5 and no more than the cooldown of 60000 ms has   *)
(* passed since lastFailTime; and so for the state the status query returns. *)
C13_OpenInvariant ==
    \A n \in ApiNames :
        /\ StoredOpen(circuitBreaker, n)
            => /\ circuitBreaker[n].failureCount >= 5
               /\ now - circuitBreaker[n].lastFailTime <= 60000
        /\ circuitBreakerStatus(circuitBreaker, n) = "open"
            => /\ FailureCount(circuitBreaker, n) >= 5
               /\ now - circuitBreaker[n].lastFailTime <= 60000

(* C13 as amended: in every state and for every name, the breaker is open    *)
(* only if failureCount >= 5, and the status query returns the stored state. *)
(* Time alone does not change the state: an open breaker stays open, past    *)
(* the cooldown too, until a call with the breaker enabled checks it more    *)
(* than 60000 ms after lastFailTime and makes it half-open, or a call        *)
(* returns a result of the operation and closes it.                          *)
C13_OpenUntilChecked ==
    /\ [](\A n \in ApiNames :
            /\ StoredOpen(circuitBreaker, n) => circuitBreaker[n].failureCount >= 5
            /\ circuitBreakerStatus(circuitBreaker, n) = "open"
                  <=> StoredOpen(circuitBreaker, n))
    /\ [][\A n \in ApiNames :
            (StoredOpen(circuitBreaker, n) /\ ~StoredOpen(circuitBreaker', n))
            => \/ \E c \in CallIds :
                    /\ Starts(c)
                    /\ calls'[c].apiName = n
                    /\ calls'[c].options.circuitBreakerEnabled
                    /\ now - circuitBreaker[n].lastFailTime > 60000
                    /\ circuitBreaker'[n].state = "half-open"
               \/ \E c \in CallIds :
                    /\ ReturnsFromOperation(c)
                    /\ calls[c].apiName = n
                    /\ circuitBreaker'[n].state = "closed"
                    /\ circuitBreaker'[n].failureCount = 0
      ]_vars

\* a breaker is open although more than the cooldown has passed since lastFailTime
C13_Witness ==
    \E n \in ApiNames :
        /\ StoredOpen(circuitBreaker, n)
        /\ circuitBreakerStatus(circuitBreaker, n) = "open"
        /\ circuitBreaker[n].failureCount >= 5
        /\ now - circuitBreaker[n].lastFailTime > 60000

-----------------------------------------------------------------------------
(* What the calls of CacheManager's methods look like *)

\* a caller calls method op in this step
Calls(op) == last'.n = last.n + 1 /\ last'.op = op

\* the key of the storage the call of this step is about
CalledKey == PREFIX \o last'.key

(* C15: a get(key) made when now > timestamp + expireTime of the entry       *)
(* returns null, counts one miss and no hit, and removes the entry: the key  *)
(* is not among the keys of the storage afterwards (the storage working).    *)
C15_Expiry ==
    [][(/\ Calls("get")
        /\ last'.fails = "none"
        /\ Has(storage, CalledKey)
        /\ now > storage[CalledKey].timestamp + storage[CalledKey].expireTime)
       => /\ last'.result = Null
          /\ stats'.misses = stats.misses + 1
          /\ stats'.hits = stats.hits
          /\ ~Has(storage', CalledKey)
          /\ pendingUpdates' = pendingUpdates
    ]_vars

\* the second call, a get after a set, has found the entry expired: it returned
\* null, counted a miss and a removal, and the key is gone
C15_Witness ==
    /\ last.n = 2
    /\ last.op = "get"
    /\ last.fails = "none"
    /\ last.result = Null
    /\ stats = [hits |-> 0, misses |-> 1, sets |-> 1, removes |-> 1]
    /\ ~Has(storage, PREFIX \o last.key)
    /\ now > 0

-----------------------------------------------------------------------------
(* C16 as claimed: an entry is visible to get only while now - timestamp <   *)
(* expireTime: a get made at now = timestamp + expireTime or later is a miss.*)
C16_VisibleBelowTtl ==
    [][(/\ Calls("get")
        /\ last'.fails = "none"
        /\ Has(storage, CalledKey)
        /\ now - storage[CalledKey].timestamp >= storage[CalledKey].expireTime)
       => /\ last'.result = Null
          /\ stats'.misses = stats.misses + 1
    ]_vars

(* C16 as amended: an entry is visible to get while now - timestamp <=       *)
(* expireTime: a get made at now = timestamp + expireTime is still a hit and *)
(* returns the payload; a get made later is a miss.                          *)
C16_VisibleUpToTtl ==
    [][(Calls("get") /\ last'.fails = "none" /\ Has(storage, CalledKey))
       => LET e == storage[CalledKey] IN
          /\ now - e.timestamp <= e.expireTime
                => /\ last'.result = e.data
                   /\ stats'.hits = stats.hits + 1
                   /\ stats'.misses = stats.misses
          /\ now - e.timestamp > e.expireTime
                => /\ last'.result = Null
                   /\ stats'.misses = stats.misses + 1
    ]_vars

\* a get has hit an entry at exactly now = timestamp + expireTime
C16_Witness ==
    /\ last.op = "get"
    /\ last.fails = "none"
    /\ last.result = "v1"
    /\ stats.hits = 1
    /\ pendingUpdates # {}
    /\ Has(storage, PREFIX \o last.key)
    /\ now - storage[PREFIX \o last.key].timestamp = storage[PREFIX \o last.key].expireTime

-----------------------------------------------------------------------------
\* entry x of the storage comes before entry y in the order of the eviction:
\* lower priority weight (low 1, normal 2, high 3) first, then fewer accesses
EvictedBefore(x, y) ==
    LET w(e) == IF e.priority = "low" THEN 1 ELSE IF e.priority = "high" THEN 3 ELSE 2
    IN  \/ w(x) < w(y)
        \/ w(x) = w(y) /\ x.accessCount < y.accessCount

(* C17: cleanupByPriority, with N entries in the storage, removes exactly    *)
(* floor(0.3 * N) of them; no entry it keeps comes before an entry it        *)
(* removes in the order (priority weight, accessCount), so that no entry is  *)
(* removed while one of strictly lower priority is kept; the entries it      *)
(* keeps are unchanged, and removes counts the entries removed.              *)
C17_Eviction ==
    [][(Calls("cleanup") /\ last'.fails = "none")
       => LET N == Cardinality(DOMAIN storage)
              removed == DOMAIN storage \ DOMAIN storage'
              kept == DOMAIN storage'
          IN  /\ kept \subseteq DOMAIN storage
              /\ Cardinality(removed) = (3 * N) \div 10
              /\ \A r \in removed, k \in kept :
                    /\ ~EvictedBefore(storage[k], storage[r])
                    /\ ~(storage[k].priority = "low" /\ storage[r].priority # "low")
                    /\ ~(storage[k].priority = "normal" /\ storage[r].priority = "high")
              /\ \A k \in kept : storage'[k] = storage[k]
              /\ stats'.removes = stats.removes + Cardinality(removed)
    ]_vars

\* cleanupByPriority has removed 2 of 7 entries and kept entries of all three
\* priorities
C17_Witness ==
    /\ last.op = "cleanup"
    /\ last.fails = "none"
    /\ stats.removes = 2
    /\ Cardinality(DOMAIN storage) = 5
    /\ \A p \in {"low", "normal", "high"} : \E k \in DOMAIN storage : storage[k].priority = p

-----------------------------------------------------------------------------
(* C18: set runs cleanupByPriority exactly when the utilization of the       *)
(* storage is above 80 % (currentSize / limitSize > 0.8, a limitSize of 0    *)
(* read as 10240), the query of the utilization working; the cleanup comes   *)
(* before the write: after a set that returns true the key set is in the     *)
(* storage.                                                                  *)
C18_EvictAbove80 ==
    [][(Calls("set") /\ last'.fails # "info")
       => LET limit == IF last'.limitSize = 0 THEN 10240 ELSE last'.limitSize
              above == last'.currentSize * 10 > limit * 8
          IN  /\ last'.cleanup <=> above
              /\ ~above => DOMAIN storage \subseteq DOMAIN storage'
              /\ last'.result = "true"
                    => /\ Has(storage', CalledKey)
                       /\ storage'[CalledKey].data = "v1"
    ]_vars

-----------------------------------------------------------------------------
\* a caller calls some method in this step
CallsAny == last'.n = last.n + 1

\* the get of this step finds its entry expired and has it removed
GetRemoves ==
    /\ Calls("get")
    /\ Has(storage, CalledKey)
    /\ now - storage[CalledKey].timestamp > storage[CalledKey].expireTime

(* C19 as claimed: when a call of the storage throws during set, get, remove *)
(* or clear, the method does not throw; set returns false and counts no      *)
(* write in sets; get returns null and counts a miss.                        *)
C19_NeverFatal ==
    [][/\ CallsAny => last'.result # "threw"
       /\ (Calls("set") /\ last'.fails \in {"info", "write"})
          => /\ last'.result = "false"
             /\ stats'.sets = stats.sets
       /\ (Calls("get") /\ (last'.fails = "read" \/ (last'.fails = "remove" /\ GetRemoves)))
          => /\ last'.result = Null
             /\ stats'.misses = stats.misses + 1
    ]_vars

(* C19 as amended: no failure of the storage makes set, get, remove or clear *)
(* throw. When the write of set throws, set returns false and counts no      *)
(* write in sets; when only the query of the utilization throws, the failure *)
(* is swallowed: set writes the entry, counts it and returns true. When the  *)
(* read of get throws, or the removal of the expired entry, get returns null *)
(* and counts a miss. remove and clear return false and count no removal.    *)
C19_FailureSwallowed ==
    [][/\ CallsAny => last'.result # "threw"
       /\ (Calls("set") /\ last'.fails = "write")
          => /\ last'.result = "false"
             /\ stats'.sets = stats.sets
             /\ ~Has(storage, CalledKey) => ~Has(storage', CalledKey)
       /\ (Calls("set") /\ last'.fails = "info")
          => /\ last'.result = "true"
             /\ stats'.sets = stats.sets + 1
             /\ Has(storage', CalledKey)
       /\ (Calls("get") /\ (last'.fails = "read" \/ (last'.fails = "remove" /\ GetRemoves)))
          => /\ last'.result = Null
             /\ stats'.misses = stats.misses + 1
             /\ stats'.hits = stats.hits
             /\ storage' = storage
       /\ (Calls("remove") /\ last'.fails = "remove")
          => /\ last'.result = "false"
             /\ stats' = stats /\ storage' = storage
       /\ (Calls("clear") /\ (last'.fails = "info"
                                \/ (last'.fails = "remove" /\ DOMAIN storage # {})))
          => /\ last'.result = "false"
             /\ stats' = stats
    ]_vars

\* a set whose write threw has returned false, after an earlier set that was counted
C19_Witness ==
    /\ last.op = "set"
    /\ last.fails = "write"
    /\ last.result = "false"
    /\ last.n = 2
    /\ stats.sets = 1

-----------------------------------------------------------------------------
(* C20: once remove(key) or clear() has returned true, every get(key) is a   *)
(* miss until set(key, ...) is called again, also when the write-back of an  *)
(* earlier hit runs after the removal.                                       *)
C20_InvalidationFinal ==
    [][(Calls("get") /\ last'.key \in last.invalid)
       => /\ last'.result = Null
          /\ stats'.hits = stats.hits
    ]_vars

-----------------------------------------------------------------------------
\* the write-back of a hit runs in this step
DeferredRuns == pendingUpdates' # pendingUpdates /\ pendingUpdates' \subseteq pendingUpdates

(* C21: the write-back a hit has scheduled changes only accessCount and      *)
(* lastAccess of the entry, never its payload, timestamp or expireTime: an   *)
(* entry written by a later set keeps the value and the lifetime of that     *)
(* set when the write-back of a hit that read the earlier value runs.        *)
C21_DeferredKeepsPayload ==
    [][DeferredRuns
       => \A k \in DOMAIN storage :
             /\ Has(storage', k)
             /\ storage'[k].data = storage[k].data
             /\ storage'[k].timestamp = storage[k].timestamp
             /\ storage'[k].expireTime = storage[k].expireTime
    ]_vars

-----------------------------------------------------------------------------
(* C22: clear() is idempotent. On a storage that works every clear() returns *)
(* true and leaves no cache entry in the storage; a second clear() right     *)
(* after it returns true too, removes nothing and leaves the storage as the  *)
(* first left it.                                                            *)
C22_ClearIdempotent ==
    [][(Calls("clear") /\ last'.fails = "none")
       => /\ last'.result = "true"
          /\ DOMAIN storage' = {}
          /\ (last.op = "clear" /\ last.result = "true" /\ DOMAIN storage = {})
             => /\ storage' = storage
                /\ stats' = stats
    ]_vars

\* a second clear() has returned true right after a clear() that removed an entry
C22_Witness ==
    /\ last.op = "clear" /\ last.prev = "clear"
    /\ last.result = "true"
    /\ stats.sets = 1 /\ stats.removes = 1
    /\ DOMAIN storage = {}

-----------------------------------------------------------------------------
\* the step is a call of get that counts d hits and e misses
GetCounts(d, e) ==
    /\ Calls("get")
    /\ stats'.hits = stats.hits + d
    /\ stats'.misses = stats.misses + e

(* C23 as claimed: every get counts either one hit or one miss, never both,  *)
(* and nothing else changes the two counters; getStats() reports hitRate =   *)
(* hits / (hits + misses), and 0 when no get has been counted.               *)
C23_ExactHitRate ==
    [][/\ Calls("get") => (GetCounts(1, 0) \/ GetCounts(0, 1))
       /\ ~Calls("get") => (stats'.hits = stats.hits /\ stats'.misses = stats.misses)
       /\ Calls("getStats")
          => LET total == stats.hits + stats.misses
             IN  IF total = 0 THEN last'.hitRate = 0
                 ELSE last'.hitRate * total = 100 * stats.hits
    ]_vars

(* C23 as amended: every get counts either one hit or one miss, never both,  *)
(* and nothing else changes the two counters; getStats() reports hitRate =   *)
(* hits / (hits + misses) rounded to two decimals (it differs from the       *)
(* quotient by no more than 0.005), and 0 when no get has been counted.      *)
C23_RoundedHitRate ==
    [][/\ Calls("get") => (GetCounts(1, 0) \/ GetCounts(0, 1))
       /\ Calls("get") => (last'.result # Null <=> GetCounts(1, 0))
       /\ ~Calls("get") => (stats'.hits = stats.hits /\ stats'.misses = stats.misses)
       /\ Calls("getStats")
          => LET total == stats.hits + stats.misses
                 off == last'.hitRate * total - 100 * stats.hits
             IN  IF total = 0 THEN last'.hitRate = 0
                 ELSE /\ last'.hitRate \in 0..100
                      /\ 2 * off <= total /\ 2 * off >= 0 - total
    ]_vars

\* getStats() has reported 0.33 after one hit and two misses
C23_Witness ==
    /\ last.op = "getStats"
    /\ stats.hits = 1 /\ stats.misses = 2
    /\ last.hitRate = 33

-----------------------------------------------------------------------------
RECURSIVE SumDurations(_)
SumDurations(log) ==
    IF log = <<>> THEN 0 ELSE log[1].duration + SumDurations(Tail(log))

(* C24: stats.averageTime is the arithmetic mean of the durations recorded   *)
(* so far and totalOperations their number (100, 200 and 300 ms give 200     *)
(* ms); an end(name) with no matching start, the name never started or       *)
(* already ended, returns 0 and leaves averageTime and totalOperations as    *)
(* they are.                                                                 *)
C24_MonitorAveraging ==
    /\ [](LET st == monitor.stats
              count == Len(measured.log)
          IN  /\ st.totalOperations = count
              /\ st.averageTime.num * (IF count = 0 THEN 1 ELSE count)
                    = SumDurations(measured.log) * st.averageTime.den
              /\ ({measured.log[i].duration : i \in 1..count} = {100, 200, 300} /\ count = 3)
                 => st.averageTime = [num |-> 200, den |-> 1])
    /\ [][\A name \in MonitorNames :
            (measured'.n = measured.n + 1 /\ measured'.op = "end" /\ measured'.name = name
               /\ name \notin measured.open)
            => /\ measured'.returned = 0
               /\ monitor'.stats.averageTime = monitor.stats.averageTime
               /\ monitor'.stats.totalOperations = monitor.stats.totalOperations
       ]_vars

-----------------------------------------------------------------------------
(* C25: the slow list holds at most 20 records and the fast list at most    *)
(* 50; the slow list holds exactly the latest measurements of more than     *)
(* 5000 ms and the fast list exactly the latest ones of less than 1000 ms,  *)
(* in the order in which they ended; a measurement of 1000 to 5000 ms is in *)
(* neither list.                                                            *)
C25_BoundedLists ==
    LET st == monitor.stats
        IsSlow(e) == e.duration > 5000
        IsFast(e) == e.duration < 1000
        \* list holds the latest limit elements of all, in their order
        LatestOf(list, all, limit) ==
            LET kept == IF Len(all) < limit THEN Len(all) ELSE limit
            IN  /\ Len(list) = kept
                /\ \A i \in 1..kept : list[i] = all[Len(all) - kept + i]
    IN  /\ Len(st.slowOperations) <= 20
        /\ Len(st.fastOperations) <= 50
        /\ LatestOf(st.slowOperations, SelectSeq(measured.log, IsSlow), 20)
        /\ LatestOf(st.fastOperations, SelectSeq(measured.log, IsFast), 50)
        /\ \A i \in 1..Len(st.slowOperations) : st.slowOperations[i].duration > 5000
        /\ \A i \in 1..Len(st.fastOperations) : st.fastOperations[i].duration < 1000

\* a 21st measurement of more than 5000 ms and a 51st of less than 1000 ms have
\* been recorded
C25_Witness ==
    /\ Len(measured.log) = 72
    /\ Len(monitor.stats.slowOperations) = 20
    /\ Len(monitor.stats.fastOperations) = 50
    /\ monitor.stats.slowOperations[20].duration = 5001
    /\ monitor.stats.fastOperations[50].duration = 999

-----------------------------------------------------------------------------
\* the step is a health check that ran (monitoring was enabled)
Checks == checked'.n = checked.n + 1 /\ checked'.ran

(* C26: a health check finds the cache critical when the hitRate that        *)
(* getStats reports is below 0.3, warning when it is at least 0.3 and below  *)
(* 0.5, healthy otherwise; with no performance issue logged in the last 5    *)
(* minutes it finds the performance critical when averageTime is above 5000  *)
(* ms, warning when it is above 3000 and at most 5000 ms, healthy otherwise. *)
C26_HealthClassification ==
    [][Checks
       => LET total == stats.hits + stats.misses
              rate == checked'.hitRate
              avg == monitor.stats.averageTime
          IN  /\ checked'.averageTime = avg
              /\ IF total = 0 THEN rate = 0
                 ELSE /\ 2 * (rate * total - 100 * stats.hits) <= total
                      /\ 2 * (100 * stats.hits - rate * total) <= total
              /\ checked'.status.cache =
                    (CASE rate < 30 -> "critical"
                       [] rate >= 30 /\ rate < 50 -> "warning"
                       [] OTHER -> "healthy")
              /\ checked'.recentIssues = 0
                 => checked'.status.performance =
                       (CASE avg.num > 5000 * avg.den -> "critical"
                          [] avg.num > 3000 * avg.den /\ avg.num <= 5000 * avg.den -> "warning"
                          [] OTHER -> "healthy")
    ]_vars

\* a check has found the cache warning at a hitRate of exactly 0.3 and the
\* performance warning at an average of exactly 5000 ms
C26_Witness ==
    /\ checked.ran
    /\ checked.hitRate = 30 /\ stats.hits = 30 /\ stats.misses = 70
    /\ checked.status.cache = "warning"
    /\ checked.recentIssues = 0
    /\ checked.status.performance = "warning"
    /\ checked.averageTime = [num |-> 5000, den |-> 1]
    /\ checked.status.storage = "healthy" /\ checked.status.errors = "healthy"

-----------------------------------------------------------------------------
-----------------------------------------------------------------------------
(* The recipe page and retryAsync *)

\* C28: on the recipe page retryCount never exceeds maxRetries, whatever failures and
\* retries have happened; in particular a retryGenerate called at retryCount = maxRetries
\* does not raise it, however the generation it starts ends.
C28_RetryCountBounded == page.retryCount <= page.maxRetries

\* C29: retryAsync with the default maxRetries calls the wrapped function at most 4 times;
\* a resolved promise carries the value of the first attempt that succeeded, a rejected
\* one the handled error of the last attempt; an error classified as non-retryable is the
\* last one, and the promise is rejected with no call after it; and the promise of every
\* call settles.
C29_BoundedRetries ==
    /\ [](LET r == retrying
              failed == Len(r.errors)
          IN  /\ r.maxRetries = DefaultMaxRetries => r.calls <= 4
              /\ r.promise = "resolved"
                 => /\ r.calls = failed + 1 /\ ~r.timer
                    /\ r.result \in {[value |-> "v1"], [value |-> "v2"]}
              /\ r.promise = "rejected"
                 => /\ r.calls = failed /\ ~r.attempting /\ ~r.timer
                    /\ r.result.originalError = r.errors[failed]
                    /\ r.result.code = classifyError(r.errors[failed])
              /\ \A i \in 1..failed :
                    classifyError(r.errors[i]) \in noRetryErrors
                    => i = failed /\ r.promise = "rejected" /\ r.calls = i)
    /\ (retrying.promise = "pending") ~> (retrying.promise \in {"resolved", "rejected"})
\* reached: a default call whose two retries failed like its first attempt (rejected after
\* three calls), the last of them with an error that is not retried
C29_Witness ==
    /\ retrying.maxRetries = DefaultMaxRetries
    /\ retrying.calls = 3
    /\ retrying.promise = "rejected"
    /\ retrying.errors = <<{"NETWORK_ERROR"}, {"timeout"}, {"cancel"}>>
    /\ retrying.result = [code |-> "USER_CANCEL", originalError |-> {"cancel"},
                          context |-> "retry-failed"]

-----------------------------------------------------------------------------
\* C30: a call rejected because the breaker is open leaves the breaker record of its
\* name as it was: failureCount and lastFailTime keep the values of the last failure of
\* the operation, and the breaker stays open.
C30_RejectionLeavesBreaker ==
    [][\A c \in CallIds :
        LET n == calls'[c].apiName
        IN  (StartsRejected(c) /\ OpenUnexpired(n))
            => /\ circuitBreaker'[n].failureCount = circuitBreaker[n].failureCount
               /\ circuitBreaker'[n].lastFailTime = circuitBreaker[n].lastFailTime
               /\ circuitBreaker'[n].state = "open"]_vars

-----------------------------------------------------------------------------
(* Recovery of the breaker *)

\* C31: an open breaker admits a call at the latest on the first call made more than the
\* cooldown after the breaker tripped (the last failure of the operation), however many
\* calls were rejected in between and however closely spaced they were: that call is
\* not rejected by the breaker, it is answered by the cache or by the operation.
C31_RecoveryByDeadline ==
    [][\A c \in CallIds :
        LET n == calls'[c].apiName
        IN  (/\ Starts(c)
             /\ calls'[c].options.circuitBreakerEnabled
             /\ Has(circuitBreaker, n)
             /\ circuitBreaker[n].state = "open"
             /\ history[n].consecutiveFailures >= Threshold
             /\ now - history[n].lastFailureAt > CooldownTime)
            => StartsOperation(c) \/ StartsFromCache(c)]_vars

\* C32: while a breaker is open and its cooldown has not elapsed, no step closes it or
\* lowers its failureCount, the late success of a call that was started before the
\* breaker tripped included.
C32_OpenUntilCooldown ==
    [][\A n \in ApiNames :
        OpenUnexpired(n)
        => /\ circuitBreaker'[n].state # "closed"
           /\ circuitBreaker'[n].failureCount >= circuitBreaker[n].failureCount]_vars

\* C33: a call made with circuitBreakerEnabled = false leaves the breaker of its name as
\* it was, in the step that starts it and in the step that settles it, whether it is
\* served from the cache, returns a result of the operation or throws.
C33_DisabledLeavesBreaker ==
    [][\A c \in CallIds :
        (/\ calls'[c] # calls[c]
         /\ calls'[c].pc # "idle"
         /\ ~calls'[c].options.circuitBreakerEnabled)
        => circuitBreaker' = circuitBreaker]_vars

-----------------------------------------------------------------------------
\* C34: when a call of optimizeAPICall has returned or thrown, the performance record
\* of its name is closed, and the monitor has recorded one duration for every call made
\* so far, on every path (breaker rejection, cache hit, result of the operation,
\* exhausted retries).
C34_RecordClosed ==
    \A c \in OneCaller :
        calls[c].pc = "done"
        => LET name == "api_" \o calls[c].apiName
           IN  /\ Has(monitor.records, name)
               /\ monitor.records[name].endTime # -1
               /\ monitor.stats.totalOperations = measured.n

-----------------------------------------------------------------------------
\* C35: a call whose operation never settles still returns or throws: it has made at
\* most retryCount + 1 attempts, each of its backoff waits is at most 5000 ms, an
\* attempt is over by the time its timer is due and the clock moves on, and a call that
\* waits for an attempt or a backoff is eventually done.
C35_Terminates ==
    /\ [](\A c \in OneCaller :
            calls[c].pc # "idle"
            => /\ calls[c].opCalls <= calls[c].options.retryCount + 1
               /\ \A j \in 1..Len(calls[c].delays) : calls[c].delays[j] <= CapDelay)
    /\ [][\A c \in OneCaller :
            (calls[c].pc = "attempt" /\ now' > now) => now < calls[c].timer]_vars
    /\ \A c \in OneCaller :
            (calls[c].pc \in {"attempt", "backoff"}) ~> (calls[c].pc = "done")
\* reached: a call with retryCount 4 has thrown the timeout error after five attempts
\* and the waits of 1000, 2000, 4000 and 5000 ms
C35_Witness ==
    /\ calls["c1"].pc = "done"
    /\ calls["c1"].outcome = "threw"
    /\ calls["c1"].value = TimeoutError
    /\ calls["c1"].opCalls = 5
    /\ calls["c1"].delays = <<1000, 2000, 4000, 5000>>
    /\ now >= 37000

\* C36: compressImages resolves in the end for every list of image paths, the empty
\* list and the lists shorter than the concurrency limit included, with one result
\* for every path at its index (the compressed path, or the original one when its
\* compression failed); it never rejects, and it is not pending once every
\* compression has settled
C36_CompressResolves ==
    /\ [](compressing.promise \in {"none", "pending", "resolved"})
    /\ [](compressing.promise = "resolved" =>
            /\ DOMAIN compressing.results = 1..Len(compressing.imagePaths)
            /\ \A k \in 1..Len(compressing.imagePaths) :
                   compressing.results[k] = IF k \in compressing.failed
                                            THEN compressing.imagePaths[k]
                                            ELSE "tmp_" \o compressing.imagePaths[k])
    /\ [](compressing.promise = "pending" => compressing.inFlight # {})
    /\ (compressing.promise = "pending" ~> compressing.promise = "resolved")

\* C37: the diagnostic and the health check agree: whenever the diagnostic runs, its
\* cache status is what checkCacheHealth finds, and its page status what
\* checkPerformanceHealth finds without recent issues, 'good' standing for 'healthy';
\* so both are critical for a hit rate below 0.3 and for an average above 5000 ms
C37_ClassifiersAgree ==
    [][diagnosed'.n = diagnosed.n + 1 =>
          LET level(status) == IF status = "good" THEN "healthy" ELSE status
          IN  /\ level(diagnosed'.cache) = checkCacheHealth(getStats(stats))
              /\ level(diagnosed'.page) = checkPerformanceHealth(monitor.stats, 0)]_vars

\* C38: a health check that runs while no cache read has been counted (hits + misses
\* = 0) does not find the cache critical and does not clear it: the entries that were
\* set are still stored after the check
C38_NoReadsNoReset ==
    [][Checks /\ stats.hits + stats.misses = 0 =>
          /\ checked'.status.cache # "critical"
          /\ ~checked'.cleared
          /\ DOMAIN storage \subseteq DOMAIN storage']_vars

====
